---- MODULE Spec2Model ----
(***************************************************************************)
(* A model of rmscene: the tagged block codec (DataStream,                 *)
(* TaggedBlockReader, TaggedBlockWriter), the block layer (Block.read,     *)
(* Block.write, read_blocks, write_blocks) and the CRDT sequence sort.     *)
(*                                                                         *)
(* Byte strings are sequences over 0..255; a stream is a byte string and   *)
(* a 0-based position, as io.BytesIO keeps them.  A call that can raise    *)
(* returns a record [err, pos, val]: err is "" or the exception's class    *)
(* name, pos the stream position the call leaves behind.                   *)
(***************************************************************************)
EXTENDS Integers, Sequences, FiniteSets, TLC

VARIABLES
    data,           \* the input byte string (io.BytesIO contents)
    pos,            \* the input stream position (data.tell())
    current_block,  \* TaggedBlockReader.current_block: <<>> (None) or <<MainBlockInfo>>
    blocks,         \* the blocks read_blocks has yielded so far
    out,            \* the output byte string written by write_blocks
    options,        \* the caller's options mapping passed to write_blocks
    producer,       \* the version of the software that produced `data`
    pc,             \* where the write_blocks(read_blocks(..)) pipeline stands
    lastRead,       \* what the latest Block.read did (history)
    lastWrite,      \* what the latest Block.write emitted (history)
    scopes,         \* the with-scopes the client of the reader or of the writer is in, innermost last
    last,           \* the latest call of that client and its result
    items,          \* the item list given to CrdtSequence(...)
    order,          \* the result of iterating the CrdtSequence
    string,         \* CrdtSequenceComparison.string: the plain string
    string_items,   \* CrdtSequenceComparison.string_items: the items of the characters of string
    last_id,        \* CrdtSequenceComparison.last_id: the next item id
    arg,            \* the argument of the function applied on its own: <<>> (none) or <<argument>>
    ret,            \* what that function returned or raised: <<>> (not called yet) or <<result>>
    tree,           \* the SceneTree that build_tree fills: <<>> (none) or <<SceneTree>>
    given,          \* the blocks build_tree has taken from its iterable so far
    writer          \* the TaggedBlockWriter of the writer's client: its data and _in_block

vars == <<data, pos, current_block, blocks, out, options, producer, pc,
          lastRead, lastWrite, scopes, last, items, order,
          string, string_items, last_id, arg, ret, tree, given, writer>>

streamVars == <<blocks, out, options, producer, pc, lastRead, lastWrite>>
apiVars == <<scopes, last>>
crdtVars == <<items, order>>
editVars == <<string, string_items, last_id>>
\* the variables of the other clients of the library
callVars == <<arg, ret>>
treeVars == <<tree, given>>
writerVars == <<writer>>
restVars == <<editVars, callVars, treeVars, writerVars>>

(***************************************************************************)
(* tagged_block_common.py: DataStream                                      *)
(***************************************************************************)

Min(a, b) == IF a < b THEN a ELSE b

Pow2(n) == 2 ^ n

Ok(p, v) == [err |-> "", pos |-> p, val |-> v]
Raise(e, p) == [err |-> e, pos |-> p, val |-> <<>>]

\* Statement sequencing.  Bind evaluates the call r once and hands its result
\* to the statements F that follow it; Then does so only when r returned,
\* and lets an exception of r propagate.
Bind(r, F(_)) == CHOOSE y \in {F(x) : x \in {r}} : TRUE
Then(r, F(_)) == CHOOSE y \in {IF x.err # "" THEN x ELSE F(x) : x \in {r}} : TRUE

\* "reMarkable .lines file, version=6          " (43 bytes)
HEADER_V6 ==
    <<114, 101, 77, 97, 114, 107, 97, 98, 108, 101, 32, 46, 108, 105, 110,
      101, 115, 32, 102, 105, 108, 101, 44, 32, 118, 101, 114, 115, 105,
      111, 110, 61, 54, 32, 32, 32, 32, 32, 32, 32, 32, 32, 32>>

\* TagType
TagID == 15
TagLength4 == 12
TagByte8 == 8
TagByte4 == 4
TagByte1 == 1
TagType == {TagID, TagLength4, TagByte8, TagByte4, TagByte1}

CrdtId(a, b) == [part1 |-> a, part2 |-> b]

\* CrdtId is an ordered dataclass: lexicographic on (part1, part2)
CrdtIdLess(x, y) ==
    \/ x.part1 < y.part1
    \/ x.part1 = y.part1 /\ x.part2 < y.part2

\* BytesIO.read(n) followed by the length test of DataStream.read_bytes: a
\* short read still moves the position over the bytes it got.
read_bytes(d, p, n) ==
    LET avail == IF p >= Len(d) THEN 0 ELSE Len(d) - p
        got == Min(n, avail)
    IN  IF got = n
        THEN Ok(p + n, SubSeq(d, p + 1, p + n))
        ELSE Raise("EOFError", p + got)

\* struct.unpack("<B")
read_uint8(d, p) ==
    Then(read_bytes(d, p, 1), LAMBDA r : Ok(r.pos, r.val[1]))

\* struct.unpack("<?"): any non-zero byte is True
DS_read_bool(d, p) ==
    Then(read_bytes(d, p, 1), LAMBDA r : Ok(r.pos, r.val[1] # 0))

\* struct.unpack("<H")
read_uint16(d, p) ==
    Then(read_bytes(d, p, 2), LAMBDA r : Ok(r.pos, r.val[1] + 256 * r.val[2]))

\* struct.unpack("<I").  The streams of the model hold no 32-bit field of
\* 2^31 or more.
read_uint32(d, p) ==
    Then(read_bytes(d, p, 4), LAMBDA r :
        Ok(r.pos, r.val[1] + 256 * r.val[2] + 65536 * r.val[3]
                  + 16777216 * r.val[4]))

(***************************************************************************)
(* Floating-point values.  A Python float is [kind, sign, exponent,        *)
(* fraction]: kind "finite" is the number (-1)^sign * 1.fraction *         *)
(* 2^exponent, fraction being the binary digits after the point without    *)
(* trailing zeros; kinds "zero" and "inf" carry a sign only, and "nan"     *)
(* keeps the payload bits as its fraction.                                 *)
(***************************************************************************)

Float(kind, sign, exponent, fraction) ==
    [kind |-> kind, sign |-> sign, exponent |-> exponent, fraction |-> fraction]

Zeros(n) == [i \in 1..n |-> 0]
Ones(n) == [i \in 1..n |-> 1]

\* the number whose binary digits are bits, most significant first
RECURSIVE BitsNat(_)
BitsNat(bits) ==
    CASE Len(bits) = 0 -> 0
      [] Len(bits) = 1 -> bits[1]
      [] Len(bits) = 2 -> 2 * bits[1] + bits[2]
      [] Len(bits) > 2 ->
            BitsNat(SubSeq(bits, 1, Len(bits) \div 2))
                * Pow2(Len(bits) - Len(bits) \div 2)
            + BitsNat(SubSeq(bits, Len(bits) \div 2 + 1, Len(bits)))

\* the binary digits of n in the given width, most significant first
NatBits(n, width) == [i \in 1..width |-> (n \div Pow2(width - i)) % 2]

\* bits without its trailing zeros
Strip(bits) ==
    LET ones == {i \in DOMAIN bits : bits[i] = 1}
    IN  IF ones = {} THEN <<>>
        ELSE SubSeq(bits, 1, CHOOSE i \in ones : \A j \in ones : j <= i)

\* the bit string of a little-endian byte string, most significant bit first
LEBits(bytes) ==
    [k \in 1..(8 * Len(bytes)) |->
        NatBits(bytes[Len(bytes) - ((k - 1) \div 8)], 8)[((k - 1) % 8) + 1]]

\* the little-endian byte string of a bit string
LEBytes(bits) ==
    [i \in 1..(Len(bits) \div 8) |->
        BitsNat(SubSeq(bits, Len(bits) - 8 * i + 1, Len(bits) - 8 * i + 8))]

\* the bits of a string of hexadecimal digits
RECURSIVE HexBits(_)
HexBits(digits) ==
    IF digits = <<>> THEN <<>>
    ELSE NatBits(Head(digits), 4) \o HexBits(Tail(digits))

\* struct.unpack("<f") (ew = 8) and ("<d") (ew = 11) of 4 and 8 bytes.  A
\* Python float is a double: the float32 that "<f" unpacks is widened, which
\* sets the first payload bit of a NaN (a signalling NaN comes out quiet).
unpack_float(bytes, ew) ==
    LET bits == LEBits(bytes)
        sign == bits[1]
        E == BitsNat(SubSeq(bits, 2, ew + 1))
        F == SubSeq(bits, ew + 2, Len(bits))
        bias == Pow2(ew - 1) - 1
        k == CHOOSE i \in DOMAIN F :
                 F[i] = 1 /\ \A j \in 1..(i - 1) : F[j] = 0
    IN  IF E = Pow2(ew) - 1
        THEN IF Strip(F) = <<>> THEN Float("inf", sign, 0, <<>>)
             ELSE IF ew = 8 THEN Float("nan", sign, 0, Strip([F EXCEPT ![1] = 1]))
             ELSE Float("nan", sign, 0, Strip(F))
        ELSE IF E = 0
        THEN IF Strip(F) = <<>> THEN Float("zero", sign, 0, <<>>)
             ELSE Float("finite", sign, 1 - bias - k,
                        Strip(SubSeq(F, k + 1, Len(F))))
        ELSE Float("finite", sign, E - bias, Strip(F))

\* the value is one that a field of ew exponent bits and fw fraction bits
\* holds exactly
Representable(v, ew, fw) ==
    LET bias == Pow2(ew - 1) - 1
    IN  CASE v.kind = "finite" ->
                /\ v.exponent <= bias
                /\ IF v.exponent >= 1 - bias
                   THEN Len(v.fraction) <= fw
                   ELSE (1 - bias - v.exponent) + Len(v.fraction) <= fw
          [] v.kind = "nan" -> Len(v.fraction) <= fw
          [] OTHER -> TRUE

\* struct.pack of the value does not raise OverflowError: the value is not
\* beyond the largest finite value of the field
Packable(v, ew, fw) ==
    LET bias == Pow2(ew - 1) - 1
    IN  v.kind = "finite" =>
            \/ v.exponent < bias
            \/ v.exponent = bias /\ Len(v.fraction) <= fw

\* bits plus one, as a bit string of the same length (or one longer when
\* every bit was set)
Inc(bits) ==
    LET clear == {i \in DOMAIN bits : bits[i] = 0}
        low == CHOOSE i \in clear : \A j \in clear : j <= i
    IN  IF clear = {} THEN <<1>> \o Zeros(Len(bits))
        ELSE [i \in DOMAIN bits |->
                 IF i < low THEN bits[i] ELSE IF i = low THEN 1 ELSE 0]

FloatZero == Float("zero", 0, 0, <<>>)

\* float(n) of an integer, -2^31 < n < 2^31
IntFloat(n) ==
    IF n = 0 THEN FloatZero
    ELSE LET m == IF n < 0 THEN -n ELSE n
             e == CHOOSE k \in 0..30 : Pow2(k) <= m /\ m \div 2 < Pow2(k)
         IN  Float("finite", IF n < 0 THEN 1 ELSE 0, e,
                   Strip(NatBits(m - Pow2(e), e)))

\* isinstance(value, float) of a number: a number of the model is an
\* integer or a Float record, and of the two only the record is printed with
\* a bracket first
is_float(value) == SubSeq(ToString(value), 1, 1) = "["

\* float(value) of a number
to_float(value) == IF is_float(value) THEN value ELSE IntFloat(value)

\* An exception raised while writing.  What a write gives is the string of
\* the bytes it wrote; a write that raises ends its string with a mark that
\* is no byte, the negated number of the exception, and what is appended
\* after a mark was never written.
WriteErrors ==
    <<"ValueError", "OverflowError", "AttributeError", "AssertionError",
      "TypeError", "struct.error", "UnicodeEncodeError">>
WriteRaise(e) == <<-(CHOOSE i \in DOMAIN WriteErrors : WriteErrors[i] = e)>>

\* the exception a write raised ("" when it returned) and the bytes it wrote
\* before
write_err(bytes) ==
    IF \A i \in DOMAIN bytes : bytes[i] >= 0 THEN ""
    ELSE WriteErrors[-bytes[CHOOSE i \in DOMAIN bytes :
                               bytes[i] < 0 /\ \A j \in 1..(i - 1) : bytes[j] >= 0]]
written(bytes) ==
    IF \A i \in DOMAIN bytes : bytes[i] >= 0 THEN bytes
    ELSE SubSeq(bytes, 1, (CHOOSE i \in DOMAIN bytes :
                              bytes[i] < 0 /\ \A j \in 1..(i - 1) : bytes[j] >= 0) - 1)

\* struct.pack("<f") (ew = 8, fw = 23) and ("<d") (ew = 11, fw = 52) of a
\* Python float, which is a double: the value is rounded to the nearest one
\* the field holds, ties to the even fraction; a finite value that is or
\* rounds beyond the largest finite one of the field raises OverflowError
\* and is not packed.  Narrowing a NaN to float32 keeps the leading payload
\* bits and sets the first of them.
pack_float(v, ew, fw) ==
    LET bias == Pow2(ew - 1) - 1
        w == ew + fw
        payload == [i \in 1..fw |->
                       IF i = 1 /\ ew = 8 THEN 1
                       ELSE IF i <= Len(v.fraction) THEN v.fraction[i] ELSE 0]
        exact ==
            CASE v.kind = "zero" -> Zeros(w)
              [] v.kind = "inf" -> Ones(ew) \o Zeros(fw)
              [] v.kind = "nan" -> Ones(ew) \o payload
              [] v.kind = "finite" ->
                    IF v.exponent > bias THEN Ones(ew) \o Zeros(fw)
                    ELSE IF v.exponent >= 1 - bias
                    THEN NatBits(v.exponent + bias, ew) \o v.fraction
                    ELSE Zeros(ew) \o Zeros(-bias - v.exponent) \o <<1>>
                         \o v.fraction
        long == exact \o Zeros(IF Len(exact) > w THEN 0 ELSE w + 1 - Len(exact))
        kept == SubSeq(long, 1, w)
        guard == long[w + 1]
        sticky == \E i \in (w + 2)..Len(long) : long[i] = 1
        up == v.kind = "finite" /\ guard = 1 /\ (sticky \/ kept[w] = 1)
        rounded == IF up THEN Inc(kept) ELSE kept
    IN  IF v.kind = "finite" /\ SubSeq(rounded, 1, ew) = Ones(ew)
        THEN WriteRaise("OverflowError")
        ELSE LEBytes(<<v.sign>> \o rounded)

\* struct.unpack("<f") / ("<d")
read_float32(d, p) ==
    Then(read_bytes(d, p, 4), LAMBDA r : Ok(r.pos, unpack_float(r.val, 8)))
read_float64(d, p) ==
    Then(read_bytes(d, p, 8), LAMBDA r : Ok(r.pos, unpack_float(r.val, 11)))

RECURSIVE read_varuint_loop(_, _, _, _)
read_varuint_loop(d, p, shift, result) ==
    Then(read_uint8(d, p), LAMBDA i :
        IF i.val >= 128
        THEN read_varuint_loop(d, i.pos, shift + 7,
                               result + (i.val % 128) * Pow2(shift))
        ELSE Ok(i.pos, result + (i.val % 128) * Pow2(shift)))

read_varuint(d, p) == read_varuint_loop(d, p, 0, 0)

read_crdt_id(d, p) ==
    Then(read_uint8(d, p), LAMBDA part1 :
    Then(read_varuint(d, part1.pos), LAMBDA part2 :
    Ok(part2.pos, CrdtId(part1.val, part2.val))))

\* DataStream._read_tag_values
read_tag_values(d, p) ==
    Then(read_varuint(d, p), LAMBDA x :
        IF (x.val % 16) \notin TagType
        THEN Raise("ValueError", x.pos)
        ELSE Ok(x.pos, <<x.val \div 16, x.val % 16>>))

\* DataStream.check_tag without its finally clause: the position is left
\* wherever _read_tag_values stopped.
check_tag_no_rewind(d, p, expected_index, expected_type) ==
    Bind(read_tag_values(d, p), LAMBDA r :
        IF r.err # ""
        THEN Ok(r.pos, FALSE)
        ELSE Ok(r.pos, r.val[1] = expected_index /\ r.val[2] = expected_type))

\* DataStream.check_tag: ValueError and EOFError give False; the finally
\* clause seeks back to where the call began.
check_tag(d, p, expected_index, expected_type) ==
    Bind(read_tag_values(d, p), LAMBDA r :
        IF r.err # ""
        THEN Ok(p, FALSE)
        ELSE Ok(p, r.val[1] = expected_index /\ r.val[2] = expected_type))

\* DataStream.read_tag raising on a mismatch without seeking back.
read_tag_no_rewind(d, p, expected_index, expected_type) ==
    Then(read_tag_values(d, p), LAMBDA r :
        IF r.val[1] # expected_index \/ r.val[2] # expected_type
        THEN Raise("UnexpectedBlockError", r.pos)
        ELSE r)

\* DataStream.read_tag: a mismatch seeks back and raises UnexpectedBlockError;
\* an error of _read_tag_values (ValueError, EOFError) passes through with
\* the position where it stopped.
read_tag(d, p, expected_index, expected_type) ==
    Then(read_tag_values(d, p), LAMBDA r :
        IF r.val[1] # expected_index
        THEN Raise("UnexpectedBlockError", p)
        ELSE IF r.val[2] # expected_type
        THEN Raise("UnexpectedBlockError", p)
        ELSE r)

\* struct.pack("<B"), ("<?"), ("<H"), ("<I"): a float, or a number outside
\* the range of the field, raises struct.error (the numbers of the model are
\* below 2**32)
write_uint8(v) ==
    IF is_float(v) THEN WriteRaise("struct.error")
    ELSE IF v < 0 \/ v > 255 THEN WriteRaise("struct.error") ELSE <<v>>
DS_write_bool(v) == <<IF v THEN 1 ELSE 0>>
write_uint16(v) ==
    IF is_float(v) THEN WriteRaise("struct.error")
    ELSE IF v < 0 \/ v > 65535 THEN WriteRaise("struct.error")
    ELSE <<v % 256, v \div 256>>
write_uint32(v) ==
    IF is_float(v) THEN WriteRaise("struct.error")
    ELSE IF v < 0 THEN WriteRaise("struct.error")
    ELSE <<v % 256, (v \div 256) % 256, (v \div 65536) % 256, v \div 16777216>>

\* struct.pack("<f") / ("<d"): an integer is converted to a float
write_float32(v) == CHOOSE bytes \in {pack_float(to_float(value), 8, 23) : value \in {v}} : TRUE
write_float64(v) == CHOOSE bytes \in {pack_float(to_float(value), 11, 52) : value \in {v}} : TRUE

\* write_varuint without the continuation bit
RECURSIVE write_varuint_no_continuation(_)
write_varuint_no_continuation(value) ==
    LET to_write == value % 128
        rest == value \div 128
    IN  IF rest # 0
        THEN <<to_write>> \o write_varuint_no_continuation(rest)
        ELSE <<to_write>>

RECURSIVE write_varuint(_)
write_varuint(value) ==
    LET to_write == value % 128
        rest == value \div 128
    IN  IF value < 0 THEN WriteRaise("ValueError")
        ELSE IF rest # 0
        THEN <<to_write + 128>> \o write_varuint(rest)
        ELSE <<to_write>>

\* DataStream.write_crdt_id.  The test of part2 against 2**64 never fails
\* here: the numbers of the model are below 2**31.
write_crdt_id(value) ==
    IF value.part1 >= 256
    THEN WriteRaise("ValueError")
    ELSE write_uint8(value.part1) \o write_varuint(value.part2)

write_tag(index, tag_type) == write_varuint(index * 16 + tag_type)

(***************************************************************************)
(* tagged_block_reader.py: TaggedBlockReader                               *)
(***************************************************************************)

None == <<>>
Some(v) == <<v>>

MainBlockInfo(offset, size, block_type, min_version, current_version) ==
    [offset |-> offset, size |-> size, extra_data |-> <<>>,
     block_type |-> block_type, min_version |-> min_version,
     current_version |-> current_version]

SubBlockInfo(offset, size) ==
    [offset |-> offset, size |-> size, extra_data |-> <<>>]

read_id(d, p, index) ==
    Then(read_tag(d, p, index, TagID), LAMBDA t : read_crdt_id(d, t.pos))

read_bool(d, p, index) ==
    Then(read_tag(d, p, index, TagByte1), LAMBDA t : DS_read_bool(d, t.pos))

read_byte(d, p, index) ==
    Then(read_tag(d, p, index, TagByte1), LAMBDA t : read_uint8(d, t.pos))

read_int(d, p, index) ==
    Then(read_tag(d, p, index, TagByte4), LAMBDA t : read_uint32(d, t.pos))

read_float(d, p, index) ==
    Then(read_tag(d, p, index, TagByte4), LAMBDA t : read_float32(d, t.pos))

read_double(d, p, index) ==
    Then(read_tag(d, p, index, TagByte8), LAMBDA t : read_float64(d, t.pos))

\* TaggedBlockReader._read_optional applied to the result r of func(index):
\* UnexpectedBlockError and EOFError give the default, a value comes back as
\* Some(value), any other exception passes through.
read_optional(r, default) ==
    Bind(r, LAMBDA x :
        IF x.err \in {"UnexpectedBlockError", "EOFError"}
        THEN Ok(x.pos, default)
        ELSE IF x.err # "" THEN x
        ELSE Ok(x.pos, Some(x.val)))

read_id_optional(d, p, index, default) == read_optional(read_id(d, p, index), default)
read_bool_optional(d, p, index, default) == read_optional(read_bool(d, p, index), default)
read_byte_optional(d, p, index, default) == read_optional(read_byte(d, p, index), default)
read_int_optional(d, p, index, default) == read_optional(read_int(d, p, index), default)
read_float_optional(d, p, index, default) == read_optional(read_float(d, p, index), default)
read_double_optional(d, p, index, default) == read_optional(read_double(d, p, index), default)

\* read_block up to its yield.  cb is current_block before the call.  val is
\* None (the generator yields None: no more blocks) or Some(MainBlockInfo),
\* which is also the new current_block.
read_block_enter(d, p, cb) ==
    IF cb # None THEN Raise("UnexpectedBlockError", p)
    ELSE
    Bind(read_uint32(d, p), LAMBDA block_length :
    IF block_length.err # "" THEN Ok(block_length.pos, None) ELSE
    Then(read_uint8(d, block_length.pos), LAMBDA unknown :
    Then(read_uint8(d, unknown.pos), LAMBDA min_version :
    Then(read_uint8(d, min_version.pos), LAMBDA current_version :
    Then(read_uint8(d, current_version.pos), LAMBDA block_type :
    IF unknown.val # 0 THEN Raise("AssertionError", block_type.pos)
    ELSE IF min_version.val > current_version.val
    THEN Raise("AssertionError", block_type.pos)
    ELSE Ok(block_type.pos,
            Some(MainBlockInfo(block_type.pos, block_length.val,
                               block_type.val, min_version.val,
                               current_version.val))))))))

\* bytes_remaining_in_block for a current_block that is set
bytes_remaining_in_block(cb, p) == cb.offset + cb.size - p

\* read_subblock up to its yield: val is the SubBlockInfo
read_subblock_enter(d, p, index) ==
    Then(read_tag(d, p, index, TagLength4), LAMBDA t :
    Then(read_uint32(d, t.pos), LAMBDA subblock_length :
    Ok(subblock_length.pos,
       SubBlockInfo(subblock_length.pos, subblock_length.val))))

\* has_subblock: cb is current_block (None or Some(info))
has_subblock(d, p, cb, index) ==
    IF cb # None /\ bytes_remaining_in_block(cb[1], p) <= 0
    THEN Ok(p, FALSE)
    ELSE check_tag(d, p, index, TagLength4)

\* _check_position without `block_info.extra_data = excess`: the rest of the
\* scope is read and dropped
check_position_discarding(d, p, block_info) ==
    LET length == block_info.size
        i0 == block_info.offset
        i1 == p
    IN  IF i1 > i0 + length THEN Raise("BlockOverflowError", p)
        ELSE IF i1 < i0 + length
        THEN Then(read_bytes(d, p, i0 + length - i1), LAMBDA excess :
                 Ok(excess.pos, block_info))
        ELSE Ok(p, block_info)

\* _check_position: val is the block_info with the excess bytes stored as its
\* extra_data.
check_position(d, p, block_info) ==
    LET length == block_info.size
        i0 == block_info.offset
        i1 == p
    IN  IF i1 > i0 + length THEN Raise("BlockOverflowError", p)
        ELSE IF i1 < i0 + length
        THEN Then(read_bytes(d, p, i0 + length - i1), LAMBDA excess :
                 Ok(excess.pos, [block_info EXCEPT !.extra_data = excess.val]))
        ELSE Ok(p, block_info)

(***************************************************************************)
(* Text.  A str is the sequence of its code points; str.encode() and       *)
(* bytes.decode() are UTF-8.                                               *)
(***************************************************************************)

\* the code point is a surrogate, U+D800 .. U+DFFF, which UTF-8 cannot
\* encode
Surrogate(c) == c >= 55296 /\ c <= 57343

\* the UTF-8 bytes of one code point that is not a surrogate
encode_char(c) ==
    IF c < 128 THEN <<c>>
    ELSE IF c < 2048 THEN <<192 + (c \div 64), 128 + (c % 64)>>
    ELSE IF c < 65536
    THEN <<224 + (c \div 4096), 128 + ((c \div 64) % 64), 128 + (c % 64)>>
    ELSE <<240 + (c \div 262144), 128 + ((c \div 4096) % 64),
           128 + ((c \div 64) % 64), 128 + (c % 64)>>

RECURSIVE encode_chars(_)
encode_chars(str) ==
    IF str = <<>> THEN <<>>
    ELSE encode_char(Head(str)) \o encode_chars(Tail(str))

\* str.encode(): the bytes, or UnicodeEncodeError and no bytes when the str
\* has a surrogate
encode(str) ==
    IF \E i \in DOMAIN str : Surrogate(str[i])
    THEN WriteRaise("UnicodeEncodeError")
    ELSE encode_chars(str)

\* byte i of b is a UTF-8 continuation byte
Continuation(b, i) == i <= Len(b) /\ b[i] >= 128 /\ b[i] < 192

\* the length of the UTF-8 sequence that lead byte c begins, 0 when no
\* sequence begins with c
SequenceLength(c) ==
    IF c < 128 THEN 1
    ELSE IF c >= 194 /\ c < 224 THEN 2
    ELSE IF c >= 224 /\ c < 240 THEN 3
    ELSE IF c >= 240 /\ c < 245 THEN 4
    ELSE 0

\* bytes i.. of b are the UTF-8 sequence of one code point: neither cut
\* short, nor overlong, nor a surrogate, nor beyond U+10FFFF
WellFormed(b, i) ==
    LET c == b[i]
    IN  /\ SequenceLength(c) > 0
        /\ \A j \in 1..(SequenceLength(c) - 1) : Continuation(b, i + j)
        /\ (c = 224 => b[i + 1] >= 160)
        /\ (c = 237 => b[i + 1] < 160)
        /\ (c = 240 => b[i + 1] >= 144)
        /\ (c = 244 => b[i + 1] < 144)

\* the code point of the well-formed sequence at byte i of b
CodePoint(b, i) ==
    LET c == b[i]
        low(j) == b[i + j] - 128
    IN  CASE SequenceLength(c) = 1 -> c
          [] SequenceLength(c) = 2 -> (c - 192) * 64 + low(1)
          [] SequenceLength(c) = 3 -> (c - 224) * 4096 + low(1) * 64 + low(2)
          [] SequenceLength(c) = 4 ->
                (c - 240) * 262144 + low(1) * 4096 + low(2) * 64 + low(3)

\* bytes.decode(): [err, val].  The sequences begin at the bytes that are no
\* continuation bytes; every one of them must be well-formed and every
\* continuation byte must belong to one of them.
decode(b) ==
    LET starts == {i \in DOMAIN b : ~Continuation(b, i)}
        valid ==
            /\ \A i \in starts : WellFormed(b, i)
            /\ \A j \in DOMAIN b \ starts :
                   \E i \in starts : i < j /\ j < i + SequenceLength(b[i])
        nth(k) == CHOOSE i \in starts : Cardinality({j \in starts : j < i}) = k - 1
    IN  IF valid
        THEN [err |-> "",
              val |-> [k \in 1..Cardinality(starts) |-> CodePoint(b, nth(k))]]
        ELSE [err |-> "UnicodeDecodeError", val |-> <<>>]

(***************************************************************************)
(* tagged_block_reader.py: higher level constructs                         *)
(***************************************************************************)

LwwValue(timestamp, value) == [timestamp |-> timestamp, value |-> value]

\* read_lww_bool, _byte, _float, _id, _string: a sub-block holding
\* read_id(1) and the value read by read_value(d, p) at index 2
read_lww(d, p, index, read_value(_, _)) ==
    Then(read_subblock_enter(d, p, index), LAMBDA sub :
    Then(read_id(d, sub.pos, 1), LAMBDA timestamp :
    Then(read_value(d, timestamp.pos), LAMBDA value :
    Then(check_position(d, value.pos, sub.val), LAMBDA e :
    Ok(e.pos, LwwValue(timestamp.val, value.val))))))

\* the body of read_string and read_string_with_format up to the decoded
\* string
read_string_body(d, p, block_info) ==
    Then(read_varuint(d, p), LAMBDA string_length :
    Then(DS_read_bool(d, string_length.pos), LAMBDA is_ascii :
    IF ~is_ascii.val THEN Raise("AssertionError", is_ascii.pos)
    ELSE IF ~(string_length.val + 2 <= block_info.size)
    THEN Raise("AssertionError", is_ascii.pos)
    ELSE Then(read_bytes(d, is_ascii.pos, string_length.val), LAMBDA b :
         Bind(decode(b.val), LAMBDA decoded :
         IF decoded.err # "" THEN Raise(decoded.err, b.pos)
         ELSE Ok(b.pos, decoded.val)))))

read_string(d, p, index) ==
    Then(read_subblock_enter(d, p, index), LAMBDA sub :
    Then(read_string_body(d, sub.pos, sub.val), LAMBDA decoded :
    Then(check_position(d, decoded.pos, sub.val), LAMBDA e :
    Ok(e.pos, decoded.val))))

\* val is <<decoded, fmt>>, fmt being None or Some(format code)
read_string_with_format(d, p, index) ==
    Then(read_subblock_enter(d, p, index), LAMBDA sub :
    Then(read_string_body(d, sub.pos, sub.val), LAMBDA decoded :
    Then(check_tag(d, decoded.pos, 2, TagByte4), LAMBDA has :
    IF has.val
    THEN Then(read_int(d, has.pos, 2), LAMBDA fmt :
         Then(check_position(d, fmt.pos, sub.val), LAMBDA e :
         Ok(e.pos, <<decoded.val, Some(fmt.val)>>)))
    ELSE Then(check_position(d, has.pos, sub.val), LAMBDA e :
         Ok(e.pos, <<decoded.val, None>>)))))

read_lww_bool(d, p, index) ==
    read_lww(d, p, index, LAMBDA dd, pp : read_bool(dd, pp, 2))
read_lww_byte(d, p, index) ==
    read_lww(d, p, index, LAMBDA dd, pp : read_byte(dd, pp, 2))
read_lww_float(d, p, index) ==
    read_lww(d, p, index, LAMBDA dd, pp : read_float(dd, pp, 2))
read_lww_id(d, p, index) ==
    read_lww(d, p, index, LAMBDA dd, pp : read_id(dd, pp, 2))
read_lww_string(d, p, index) ==
    read_lww(d, p, index, LAMBDA dd, pp : read_string(dd, pp, 2))

\* val is <<first, second>>
read_int_pair(d, p, index) ==
    Then(read_subblock_enter(d, p, index), LAMBDA sub :
    Then(read_uint32(d, sub.pos), LAMBDA first :
    Then(read_uint32(d, first.pos), LAMBDA second :
    Then(check_position(d, second.pos, sub.val), LAMBDA e :
    Ok(e.pos, <<first.val, second.val>>)))))

(***************************************************************************)
(* scene_stream.py: the block kinds                                        *)
(*                                                                         *)
(* A block is [kind, f, extra_data]: kind is the class name, f the         *)
(* dataclass fields.  The kinds modelled here are MigrationInfoBlock,      *)
(* PageInfoBlock, SceneTreeBlock, SceneGroupItemBlock, SceneTextItemBlock, *)
(* SceneTombstoneItemBlock and UnreadableBlock; the streams of the model   *)
(* hold no block of the other registered types.                            *)
(***************************************************************************)

\* BLOCK_TYPE class attributes
MigrationInfoBlock_BLOCK_TYPE == 0
SceneTreeBlock_BLOCK_TYPE == 1
TreeNodeBlock_BLOCK_TYPE == 2
SceneGlyphItemBlock_BLOCK_TYPE == 3
SceneGroupItemBlock_BLOCK_TYPE == 4
SceneLineItemBlock_BLOCK_TYPE == 5
SceneTextItemBlock_BLOCK_TYPE == 6
RootTextBlock_BLOCK_TYPE == 7
SceneTombstoneItemBlock_BLOCK_TYPE == 8
AuthorIdsBlock_BLOCK_TYPE == 9
PageInfoBlock_BLOCK_TYPE == 10
SceneInfo_BLOCK_TYPE == 13

\* Block.lookup: the class registered for block_type, "" for None
lookup(block_type) ==
    CASE block_type = SceneInfo_BLOCK_TYPE -> "SceneInfo"
      [] block_type = AuthorIdsBlock_BLOCK_TYPE -> "AuthorIdsBlock"
      [] block_type = MigrationInfoBlock_BLOCK_TYPE -> "MigrationInfoBlock"
      [] block_type = TreeNodeBlock_BLOCK_TYPE -> "TreeNodeBlock"
      [] block_type = PageInfoBlock_BLOCK_TYPE -> "PageInfoBlock"
      [] block_type = SceneTreeBlock_BLOCK_TYPE -> "SceneTreeBlock"
      [] block_type = SceneTombstoneItemBlock_BLOCK_TYPE -> "SceneTombstoneItemBlock"
      [] block_type = SceneGlyphItemBlock_BLOCK_TYPE -> "SceneGlyphItemBlock"
      [] block_type = SceneGroupItemBlock_BLOCK_TYPE -> "SceneGroupItemBlock"
      [] block_type = SceneLineItemBlock_BLOCK_TYPE -> "SceneLineItemBlock"
      [] block_type = SceneTextItemBlock_BLOCK_TYPE -> "SceneTextItemBlock"
      [] block_type = RootTextBlock_BLOCK_TYPE -> "RootTextBlock"
      [] OTHER -> ""

Block(kind, f) == [kind |-> kind, f |-> f, extra_data |-> <<>>]

CrdtSequenceItem(item_id, left_id, right_id, deleted_length, value) ==
    [item_id |-> item_id, left_id |-> left_id, right_id |-> right_id,
     deleted_length |-> deleted_length, value |-> value]

(***************************************************************************)
(* scene_items.py: the values blocks hold.  A str is the sequence of its   *)
(* code points; an optional field is None or Some(value).                  *)
(***************************************************************************)

\* the values of the enum PenColor; PenColor(n) raises ValueError for any
\* other n
PenColor == 0..8

\* the values of the enum Pen
Pen == {0, 1, 2, 3, 4, 5, 6, 7, 8, 12, 13, 14, 15, 16, 17, 18, 21}

\* si.Group(node_id) with the defaults of its fields
Group(node_id) ==
    [node_id |-> node_id,
     children |-> <<>>,
     label |-> LwwValue(CrdtId(0, 0), <<>>),
     visible |-> LwwValue(CrdtId(0, 0), TRUE),
     anchor_id |-> None,
     anchor_type |-> None,
     anchor_threshold |-> None,
     anchor_origin_x |-> None]

Rectangle(x, y, w, h) == [x |-> x, y |-> y, w |-> w, h |-> h]

\* si.GlyphRange; start is None or Some(n)
GlyphRange(start, length, text, color, rectangles) ==
    [start |-> start, length |-> length, text |-> text, color |-> color,
     rectangles |-> rectangles]

\* si.Text: items is the list of the CrdtSequence's items, formats the dict
\* as the sequence of its [key, value] entries
Text(text_items, formats, pos_x, pos_y, width) ==
    [items |-> text_items, formats |-> formats, pos_x |-> pos_x, pos_y |-> pos_y,
     width |-> width]

\* The value of a text item in a stream is a str or an int (a format
\* code): [text, fmt] holds the str with fmt = None, or the int as
\* fmt = Some(code) with text empty.
TextValue(text) == [text |-> text, fmt |-> None]
FormatValue(code) == [text |-> <<>>, fmt |-> Some(code)]

\* uuid.UUID(bytes_le = b) is kept as its field bytes; bytes_le has the
\* first three fields of bytes in little-endian order
bytes_le(b) ==
    <<b[4], b[3], b[2], b[1], b[6], b[5], b[8], b[7]>> \o SubSeq(b, 9, 16)
UUID(b) == [bytes |-> bytes_le(b)]

\* d[key] = value on a dict kept as the sequence of its entries in
\* insertion order
dict_set(dict, key, value) ==
    IF \E i \in DOMAIN dict : dict[i].key = key
    THEN [i \in DOMAIN dict |->
             IF dict[i].key = key THEN [key |-> key, value |-> value]
             ELSE dict[i]]
    ELSE Append(dict, [key |-> key, value |-> value])

\* packaging.version.Version: release numbers compare as tuples padded with
\* zeros, so Version("3.0") = Version("3.0.0").
RECURSIVE VersionLess(_, _)
VersionLess(a, b) ==
    IF a = <<>> /\ b = <<>> THEN FALSE
    ELSE LET x == IF a = <<>> THEN 0 ELSE Head(a)
             y == IF b = <<>> THEN 0 ELSE Head(b)
         IN  IF x # y THEN x < y
             ELSE VersionLess(IF a = <<>> THEN a ELSE Tail(a),
                              IF b = <<>> THEN b ELSE Tail(b))

VersionGE(a, b) == ~VersionLess(a, b)
VersionGT(a, b) == VersionLess(b, a)

\* writer.options.get("version", default); TaggedBlockWriter.__init__ turns
\* options None into {}
options_get_version(opts, default) ==
    IF opts.given /\ opts.has_version THEN opts.version ELSE default

\* MigrationInfoBlock.from_stream
MigrationInfoBlock_from_stream(d, p, cb) ==
    Then(read_id(d, p, 1), LAMBDA migration_id :
    Then(read_bool(d, migration_id.pos, 2), LAMBDA is_device :
    Then(IF bytes_remaining_in_block(cb, is_device.pos) # 0
         THEN read_bool(d, is_device.pos, 3)
         ELSE Ok(is_device.pos, FALSE), LAMBDA unknown :
    Ok(unknown.pos,
       Block("MigrationInfoBlock",
             [migration_id |-> migration_id.val,
              is_device |-> is_device.val,
              unknown |-> unknown.val])))))

\* PageInfoBlock.from_stream
PageInfoBlock_from_stream(d, p, cb) ==
    Then(read_int(d, p, 1), LAMBDA loads_count :
    Then(read_int(d, loads_count.pos, 2), LAMBDA merges_count :
    Then(read_int(d, merges_count.pos, 3), LAMBDA text_chars_count :
    Then(read_int(d, text_chars_count.pos, 4), LAMBDA text_lines_count :
    Then(IF bytes_remaining_in_block(cb, text_lines_count.pos) # 0
         THEN read_int(d, text_lines_count.pos, 5)
         ELSE Ok(text_lines_count.pos, 0), LAMBDA type_folio_use_count :
    Ok(type_folio_use_count.pos,
       Block("PageInfoBlock",
             [loads_count |-> loads_count.val,
              merges_count |-> merges_count.val,
              text_chars_count |-> text_chars_count.val,
              text_lines_count |-> text_lines_count.val,
              type_folio_use_count |-> type_folio_use_count.val])))))))

\* SceneTreeBlock.from_stream; the sub-block's SubBlockInfo, with the
\* extra_data _check_position stored in it, is dropped when the scope ends.
SceneTreeBlock_from_stream(d, p, cb) ==
    Then(read_id(d, p, 1), LAMBDA tree_id :
    Then(read_id(d, tree_id.pos, 2), LAMBDA node_id :
    Then(read_bool(d, node_id.pos, 3), LAMBDA is_update :
    Then(read_subblock_enter(d, is_update.pos, 4), LAMBDA sub :
    Then(read_id(d, sub.pos, 1), LAMBDA parent_id :
    Then(check_position(d, parent_id.pos, sub.val), LAMBDA exit :
    Ok(exit.pos,
       Block("SceneTreeBlock",
             [tree_id |-> tree_id.val, node_id |-> node_id.val,
              is_update |-> is_update.val,
              parent_id |-> parent_id.val]))))))))

\* ITEM_TYPE class attributes (SceneTombstoneItemBlock inherits
\* SceneItemBlock.ITEM_TYPE)
ITEM_TYPE(kind) ==
    CASE kind = "SceneGlyphItemBlock" -> 1
      [] kind = "SceneGroupItemBlock" -> 2
      [] kind = "SceneLineItemBlock" -> 3
      [] kind = "SceneTextItemBlock" -> 5
      [] OTHER -> 0

(***************************************************************************)
(* Lines.  A Line holds its Points; a Point's x and y are floats, its      *)
(* speed, direction, width and pressure are integers when it was made by   *)
(* a caller or read from a version-2 payload, and floats (width apart)     *)
(* when it was read from a version-1 payload.                              *)
(***************************************************************************)
Point(x, y, speed, direction, width, pressure) ==
    [x |-> x, y |-> y, speed |-> speed, direction |-> direction,
     width |-> width, pressure |-> pressure]

\* si.Line: the dataclass has these five fields and no move_id
Line(color, tool, points, thickness_scale, starting_length) ==
    [color |-> color, tool |-> tool, points |-> points,
     thickness_scale |-> thickness_scale, starting_length |-> starting_length]

\* v * 2^k, which is exact
Scaled(v, k) == IF v.kind = "finite" THEN [v EXCEPT !.exponent = @ + k] ELSE v

\* bits without its leading zeros
Trim(bits) ==
    LET ones == {i \in DOMAIN bits : bits[i] = 1}
    IN  IF ones = {} THEN <<>>
        ELSE SubSeq(bits, CHOOSE i \in ones : \A j \in ones : i <= j, Len(bits))

\* the double nearest to (-1)^sign * N * 2^e, where N is the number with the
\* binary digits bits (the first one set), plus a part of less than 2^e when
\* sticky: ties go to the even significand.  The results of the model stay
\* in the range of the normal doubles.
RoundDouble(sign, bits, e, sticky) ==
    LET n == Len(bits)
        kept == SubSeq(bits, 1, 53)
        up == /\ bits[54] = 1
              /\ (sticky \/ kept[53] = 1 \/ \E i \in 55..n : bits[i] = 1)
        rounded == IF up THEN Inc(kept) ELSE kept
    IN  IF n <= 53
        THEN Float("finite", sign, e + n - 1, Strip(Tail(bits)))
        ELSE Float("finite", sign, e + n - 1 + (Len(rounded) - 53),
                   Strip(Tail(rounded)))

\* the number of pairs of set digits of x and y whose weights multiply to 2^k
Column(x, y, k) ==
    Cardinality({i \in 0..k : /\ i < Len(x)
                              /\ k - i < Len(y)
                              /\ x[Len(x) - i] = 1
                              /\ y[Len(y) - (k - i)] = 1})

\* the steps from..to of a loop are taken in four parts of this length,
\* the last one shorter or empty
Quarter(from, to) == (to - from + 4) \div 4

\* the digits below 2^k of a product, led by the carry into 2^k: one more
\* column is added to the digits below it
ProductStep(prev, column) ==
    <<(column + prev[1]) \div 2, (column + prev[1]) % 2>> \o Tail(prev)
RECURSIVE ProductDigits(_, _, _, _, _)
ProductDigits(prev, x, y, from, to) ==
    CASE from > to -> prev
      [] from = to -> ProductStep(prev, Column(x, y, from))
      [] from < to ->
            CHOOSE digits \in
                {ProductDigits(c, x, y, from + 3 * Quarter(from, to), to) :
                  c \in {ProductDigits(b, x, y, from + 2 * Quarter(from, to),
                                       Min(from + 3 * Quarter(from, to) - 1, to)) :
                    b \in {ProductDigits(a, x, y, from + Quarter(from, to),
                                         Min(from + 2 * Quarter(from, to) - 1, to)) :
                      a \in {ProductDigits(prev, x, y, from,
                                           from + Quarter(from, to) - 1)}}}} :
                TRUE

\* the sign bit set and the first payload bit: the NaN of an invalid operation
DefaultNaN == Float("nan", 1, 0, <<1>>)

\* a * b of two Python floats: the product of the two significands, whose
\* columns are added from the lowest, is rounded
FloatProduct(a, b) ==
    LET sign == (a.sign + b.sign) % 2
    IN  IF a.kind = "nan" THEN a
        ELSE IF b.kind = "nan" THEN b
        ELSE IF {a.kind, b.kind} = {"inf", "zero"} THEN DefaultNaN
        ELSE IF "inf" \in {a.kind, b.kind} THEN Float("inf", sign, 0, <<>>)
        ELSE IF "zero" \in {a.kind, b.kind} THEN Float("zero", sign, 0, <<>>)
        ELSE CHOOSE v \in
                 {RoundDouble(sign, Trim(Tail(digits)),
                              (a.exponent - Len(a.fraction))
                                  + (b.exponent - Len(b.fraction)),
                              FALSE) :
                     digits \in {ProductDigits(<<0>>, x, y, 0, Len(x) + Len(y) - 1) :
                                    x \in {<<1>> \o a.fraction},
                                    y \in {<<1>> \o b.fraction}}} : TRUE
FloatMul(a, b) == CHOOSE v \in {FloatProduct(x, y) : x \in {a}, y \in {b}} : TRUE

\* long division by the number hi * 2^27 + lo of 53 binary digits: one more
\* digit of the dividend is brought down to the remainder
Limb == Pow2(27)
DivideStep(prev, digit, hi, lo) ==
    LET low == 2 * prev.lo + digit
        l == low % Limb
        h == 2 * prev.hi + low \div Limb
        borrow == IF l < lo THEN 1 ELSE 0
    IN  IF h > hi \/ (h = hi /\ l >= lo)
        THEN [q |-> Append(prev.q, 1), hi |-> h - hi - borrow,
              lo |-> l - lo + borrow * Limb]
        ELSE [q |-> Append(prev.q, 0), hi |-> h, lo |-> l]
RECURSIVE Divide(_, _, _, _, _, _)
Divide(prev, digits, from, to, hi, lo) ==
    CASE from > to -> prev
      [] from = to -> DivideStep(prev, digits[from], hi, lo)
      [] from < to ->
            CHOOSE r \in
                {Divide(c, digits, from + 3 * Quarter(from, to), to, hi, lo) :
                  c \in {Divide(b, digits, from + 2 * Quarter(from, to),
                                Min(from + 3 * Quarter(from, to) - 1, to), hi, lo) :
                    b \in {Divide(a, digits, from + Quarter(from, to),
                                  Min(from + 2 * Quarter(from, to) - 1, to), hi, lo) :
                      a \in {Divide(prev, digits, from,
                                    from + Quarter(from, to) - 1, hi, lo)}}}} :
                TRUE

\* the 53 binary digits of the significand of a finite value
Significand(v) == <<1>> \o v.fraction \o Zeros(52 - Len(v.fraction))

\* a / b of two Python floats, b finite and not zero: the long division of
\* the dividend's significand followed by 55 zeros, taken up after its first
\* 52 digits, which are below the divisor and leave the quotient empty
FloatQuotient(a, b) ==
    LET sign == (a.sign + b.sign) % 2
        dividend == Significand(a)
        divisor == Significand(b)
    IN  IF a.kind = "nan" THEN a
        ELSE IF a.kind \in {"inf", "zero"} THEN Float(a.kind, sign, 0, <<>>)
        ELSE CHOOSE v \in
                 {RoundDouble(sign, Trim(r.q), a.exponent - b.exponent - 55,
                              r.hi # 0 \/ r.lo # 0) :
                     r \in {Divide(first, digits, 1, 56, hi, lo) :
                               first \in {[q |-> <<>>,
                                           hi |-> BitsNat(SubSeq(dividend, 1, 25)),
                                           lo |-> BitsNat(SubSeq(dividend, 26, 52))]},
                               digits \in {<<dividend[53]>> \o Zeros(55)},
                               hi \in {BitsNat(SubSeq(divisor, 1, 26))},
                               lo \in {BitsNat(SubSeq(divisor, 27, 53))}}} : TRUE
FloatDiv(a, b) == CHOOSE v \in {FloatQuotient(x, y) : x \in {a}, y \in {b}} : TRUE

\* math.pi * 2
TWO_PI ==
    Float("finite", 0, 2, Strip(HexBits(<<9, 2, 1, 15, 11, 5, 4, 4, 4, 2, 13, 1, 8>>)))

\* round(v) of a float: ValueError for a NaN, OverflowError for an infinity
round_err(v) ==
    IF v.kind = "nan" THEN "ValueError"
    ELSE IF v.kind = "inf" THEN "OverflowError"
    ELSE ""

\* int(round(v)) of a finite float, |v| < 2^31: to the nearest integer, ties
\* to the even one
RoundInt(v) ==
    IF v.kind = "zero" THEN 0
    ELSE IF v.exponent < -1 THEN 0
    ELSE LET bits == v.fraction \o Zeros(v.exponent + 1)
             whole == Pow2(v.exponent) + BitsNat(SubSeq(bits, 1, v.exponent))
             half == bits[v.exponent + 1]
             more == \E i \in (v.exponent + 2)..Len(bits) : bits[i] = 1
             m == IF v.exponent = -1
                  THEN (IF v.fraction = <<>> THEN 0 ELSE 1)
                  ELSE IF half = 1 /\ (more \/ whole % 2 = 1) THEN whole + 1
                  ELSE whole
         IN  IF v.sign = 1 THEN -m ELSE m

\* point_serialized_size
point_serialized_size(version) ==
    IF version = 1 THEN [err |-> "", size |-> 24]
    ELSE IF version = 2 THEN [err |-> "", size |-> 14]
    ELSE [err |-> "ValueError", size |-> 0]

\* the five read_float32 that begin a version 1 point: val is the values
\* read, before the arithmetic of point_from_stream
point_from_stream_floats(d, p) ==
    Then(read_float32(d, p), LAMBDA x :
    Then(read_float32(d, x.pos), LAMBDA y :
    Then(read_float32(d, y.pos), LAMBDA speed :
    Then(read_float32(d, speed.pos), LAMBDA direction :
    Then(read_float32(d, direction.pos), LAMBDA width :
    Ok(width.pos, [x |-> x.val, y |-> y.val, speed |-> speed.val,
                   direction |-> direction.val, width |-> width.val]))))))

\* point_from_stream
point_from_stream(d, p, version) ==
    IF version \notin {1, 2} THEN Raise("ValueError", p)
    ELSE IF version = 1
    THEN Then(point_from_stream_floats(d, p), LAMBDA floats :
         IF round_err(floats.val.width) # ""
         THEN Raise(round_err(floats.val.width), floats.pos)
         ELSE
         Then(read_float32(d, floats.pos), LAMBDA pressure :
         Ok(pressure.pos,
            Point(floats.val.x, floats.val.y, Scaled(floats.val.speed, 2),
                  FloatDiv(FloatMul(IntFloat(255), floats.val.direction), TWO_PI),
                  RoundInt(Scaled(floats.val.width, 2)),
                  FloatMul(pressure.val, IntFloat(255))))))
    ELSE Then(read_float32(d, p), LAMBDA x :
         Then(read_float32(d, x.pos), LAMBDA y :
         Then(read_uint16(d, y.pos), LAMBDA speed :
         Then(read_uint16(d, speed.pos), LAMBDA width :
         Then(read_uint8(d, width.pos), LAMBDA direction :
         Then(read_uint8(d, direction.pos), LAMBDA pressure :
         Ok(pressure.pos,
            Point(x.val, y.val, speed.val, direction.val, width.val,
                  pressure.val))))))))

\* [point_from_stream(stream, version=version) for _ in range(num_points)]
RECURSIVE read_points(_, _, _, _)
read_points(d, p, version, num_points) ==
    IF num_points = 0 THEN Ok(p, <<>>)
    ELSE Then(point_from_stream(d, p, version), LAMBDA point :
         Then(read_points(d, point.pos, version, num_points - 1), LAMBDA rest :
         Ok(rest.pos, <<point.val>> \o rest.val)))

\* line_from_stream up to starting_length: val is the four values read
line_from_stream_head(d, p) ==
    Then(read_int(d, p, 1), LAMBDA tool_id :
    IF tool_id.val \notin Pen THEN Raise("ValueError", tool_id.pos)
    ELSE
    Then(read_int(d, tool_id.pos, 2), LAMBDA color_id :
    IF color_id.val \notin PenColor THEN Raise("ValueError", color_id.pos)
    ELSE
    Then(read_double(d, color_id.pos, 3), LAMBDA thickness_scale :
    Then(read_float(d, thickness_scale.pos, 4), LAMBDA starting_length :
    Ok(starting_length.pos,
       [tool_id |-> tool_id.val, color_id |-> color_id.val,
        thickness_scale |-> thickness_scale.val,
        starting_length |-> starting_length.val])))))

\* the with reader.read_subblock(5) of line_from_stream: val is the points
line_from_stream_points(d, p, version) ==
    LET point_size == point_serialized_size(version)
    IN
    Then(read_subblock_enter(d, p, 5), LAMBDA block_info :
    IF point_size.err # "" THEN Raise(point_size.err, block_info.pos)
    ELSE IF block_info.val.size % point_size.size # 0
    THEN Raise("ValueError", block_info.pos)
    ELSE
    Then(read_points(d, block_info.pos, version,
                     block_info.val.size \div point_size.size), LAMBDA points :
    Then(check_position(d, points.pos, block_info.val), LAMBDA exit :
    Ok(exit.pos, points.val))))

\* line_from_stream, cb being the reader's current_block.  The call
\* si.Line(color, tool, points, thickness_scale, starting_length, move_id)
\* that ends it gives six arguments to a class that takes five: TypeError.
line_from_stream(d, p, cb, version) ==
    Then(line_from_stream_head(d, p), LAMBDA head :
    Then(line_from_stream_points(d, head.pos, version), LAMBDA points :
    Then(read_id(d, points.pos, 6), LAMBDA timestamp :
    Bind(IF bytes_remaining_in_block(cb, timestamp.pos) >= 3
         THEN Bind(read_id(d, timestamp.pos, 7), LAMBDA move_id :
                  IF move_id.err = "UnexpectedBlockError"
                  THEN Ok(move_id.pos, None)
                  ELSE IF move_id.err # "" THEN move_id
                  ELSE Ok(move_id.pos, Some(move_id.val)))
         ELSE Ok(timestamp.pos, None), LAMBDA move_id :
    IF move_id.err # "" THEN move_id
    ELSE Raise("TypeError", move_id.pos)))))

\* glyph_range_from_stream up to text: val is the four values read
glyph_range_from_stream_head(d, p) ==
    Then(read_int_optional(d, p, 2, None), LAMBDA start :
    Then(read_int_optional(d, start.pos, 3, None), LAMBDA length :
    Then(read_int(d, length.pos, 4), LAMBDA color_id :
    IF color_id.val \notin PenColor THEN Raise("ValueError", color_id.pos)
    ELSE
    Then(read_string(d, color_id.pos, 5), LAMBDA text :
    Ok(text.pos,
       [start |-> start.val,
        length |-> IF length.val = None THEN Len(text.val) ELSE length.val[1],
        color |-> color_id.val, text |-> text.val])))))

\* si.Rectangle(*[stream.data.read_float64() for _ in range(4)])
read_rectangle(d, p) ==
    Then(read_float64(d, p), LAMBDA x :
    Then(read_float64(d, x.pos), LAMBDA y :
    Then(read_float64(d, y.pos), LAMBDA w :
    Then(read_float64(d, w.pos), LAMBDA h :
    Ok(h.pos, Rectangle(x.val, y.val, w.val, h.val))))))

\* [si.Rectangle(..) for _ in range(num_rects)]
RECURSIVE read_rectangles(_, _, _)
read_rectangles(d, p, num_rects) ==
    IF num_rects = 0 THEN Ok(p, <<>>)
    ELSE Then(read_rectangle(d, p), LAMBDA rect :
         Then(read_rectangles(d, rect.pos, num_rects - 1), LAMBDA rest :
         Ok(rest.pos, <<rect.val>> \o rest.val)))

\* the with stream.read_subblock(6) of glyph_range_from_stream: val is the
\* rectangles
glyph_range_from_stream_rectangles(d, p) ==
    Then(read_subblock_enter(d, p, 6), LAMBDA sub :
    Then(read_varuint(d, sub.pos), LAMBDA num_rects :
    Then(read_rectangles(d, num_rects.pos, num_rects.val), LAMBDA rectangles :
    Then(check_position(d, rectangles.pos, sub.val), LAMBDA exit :
    Ok(exit.pos, rectangles.val)))))

\* glyph_range_from_stream
glyph_range_from_stream(d, p) ==
    Then(glyph_range_from_stream_head(d, p), LAMBDA head :
    Then(glyph_range_from_stream_rectangles(d, head.pos), LAMBDA rectangles :
    Ok(rectangles.pos,
       GlyphRange(head.val.start, head.val.length, head.val.text,
                  head.val.color, rectangles.val))))

\* subclass.value_from_stream of the item kinds: val is None or Some(value)
value_from_stream(kind, d, p, cb) ==
    CASE kind = "SceneGroupItemBlock" ->
            Then(read_id(d, p, 2), LAMBDA value : Ok(value.pos, Some(value.val)))
      [] kind = "SceneLineItemBlock" ->
            line_from_stream(d, p, cb, cb.current_version)
      [] kind = "SceneGlyphItemBlock" ->
            Then(glyph_range_from_stream(d, p), LAMBDA value :
                Ok(value.pos, Some(value.val)))
      [] kind \in {"SceneTextItemBlock", "SceneTombstoneItemBlock"} ->
            Ok(p, None)

\* SceneItemBlock.from_stream
SceneItemBlock_item(subclass, parent_id, item_id, left_id, right_id, deleted_length, value, extra_value_data) ==
    Block(subclass,
          [parent_id |-> parent_id,
           item |-> CrdtSequenceItem(item_id, left_id, right_id,
                                     deleted_length, value),
           extra_value_data |-> extra_value_data])

\* SceneItemBlock.from_stream up to deleted_length: val is the five values
\* read
SceneItemBlock_ids(d, p) ==
    Then(read_id(d, p, 1), LAMBDA parent_id :
    Then(read_id(d, parent_id.pos, 2), LAMBDA item_id :
    Then(read_id(d, item_id.pos, 3), LAMBDA left_id :
    Then(read_id(d, left_id.pos, 4), LAMBDA right_id :
    Then(read_int(d, right_id.pos, 5), LAMBDA deleted_length :
    Ok(deleted_length.pos,
       [parent_id |-> parent_id.val, item_id |-> item_id.val,
        left_id |-> left_id.val, right_id |-> right_id.val,
        deleted_length |-> deleted_length.val]))))))

\* the if/elif chain of SceneItemBlock.from_stream: the subclass for the
\* block type of the current block, "" where the chain raises ValueError
SceneItemBlock_subclass(block_type) ==
    IF block_type = SceneGlyphItemBlock_BLOCK_TYPE THEN "SceneGlyphItemBlock"
    ELSE IF block_type = SceneGroupItemBlock_BLOCK_TYPE THEN "SceneGroupItemBlock"
    ELSE IF block_type = SceneLineItemBlock_BLOCK_TYPE THEN "SceneLineItemBlock"
    ELSE IF block_type = SceneTextItemBlock_BLOCK_TYPE THEN "SceneTextItemBlock"
    ELSE IF block_type = SceneTombstoneItemBlock_BLOCK_TYPE
    THEN "SceneTombstoneItemBlock"
    ELSE ""

\* SceneItemBlock.from_stream from has_subblock(6) to the assertion on
\* item_type: val is None without a sub-block 6, else Some of the sub-block
\* entered
SceneItemBlock_item_type(subclass, d, p, cb) ==
    Then(has_subblock(d, p, Some(cb), 6), LAMBDA has :
    IF ~has.val THEN Ok(has.pos, None)
    ELSE
    Then(read_subblock_enter(d, has.pos, 6), LAMBDA sub :
    Then(read_uint8(d, sub.pos), LAMBDA item_type :
    IF item_type.val # ITEM_TYPE(subclass)
    THEN Raise("AssertionError", item_type.pos)
    ELSE Ok(item_type.pos, Some(sub.val)))))

SceneItemBlock_from_stream(d, p, cb) ==
    LET subclass == SceneItemBlock_subclass(cb.block_type)
    IN
    IF subclass = "" THEN Raise("ValueError", p)
    ELSE
    Then(SceneItemBlock_ids(d, p), LAMBDA ids :
    Then(SceneItemBlock_item_type(subclass, d, ids.pos, cb), LAMBDA sub :
    IF sub.val = None
    THEN Ok(sub.pos,
            SceneItemBlock_item(subclass, ids.val.parent_id,
                                ids.val.item_id, ids.val.left_id,
                                ids.val.right_id, ids.val.deleted_length,
                                None, <<>>))
    ELSE
    Then(value_from_stream(subclass, d, sub.pos, cb), LAMBDA value :
    Then(check_position(d, value.pos, sub.val[1]), LAMBDA exit :
    Ok(exit.pos,
       SceneItemBlock_item(subclass, ids.val.parent_id, ids.val.item_id,
                           ids.val.left_id, ids.val.right_id,
                           ids.val.deleted_length,
                           value.val, exit.val.extra_data))))))

\* SceneInfo.from_stream: each of the three optional parts is read when
\* bytes remain in the block
SceneInfo_from_stream(d, p, cb) ==
    Then(read_lww_id(d, p, 1), LAMBDA current_layer :
    Then(IF bytes_remaining_in_block(cb, current_layer.pos) > 0
         THEN Then(read_lww_bool(d, current_layer.pos, 2), LAMBDA v :
                  Ok(v.pos, Some(v.val)))
         ELSE Ok(current_layer.pos, None), LAMBDA background_visible :
    Then(IF bytes_remaining_in_block(cb, background_visible.pos) > 0
         THEN Then(read_lww_bool(d, background_visible.pos, 3), LAMBDA v :
                  Ok(v.pos, Some(v.val)))
         ELSE Ok(background_visible.pos, None), LAMBDA root_document_visible :
    Then(IF bytes_remaining_in_block(cb, root_document_visible.pos) > 0
         THEN Then(read_int_pair(d, root_document_visible.pos, 5), LAMBDA v :
                  Ok(v.pos, Some(v.val)))
         ELSE Ok(root_document_visible.pos, None), LAMBDA paper_size :
    Ok(paper_size.pos,
       Block("SceneInfo",
             [current_layer |-> current_layer.val,
              background_visible |-> background_visible.val,
              root_document_visible |-> root_document_visible.val,
              paper_size |-> paper_size.val]))))))

\* the body of the loop of AuthorIdsBlock.from_stream: val is the entry
\* [key |-> author_id, value |-> uuid]
AuthorIdsBlock_entry(d, p) ==
    Then(read_subblock_enter(d, p, 0), LAMBDA sub :
    Then(read_varuint(d, sub.pos), LAMBDA uuid_length :
    IF uuid_length.val # 16 THEN Raise("ValueError", uuid_length.pos)
    ELSE
    Then(read_bytes(d, uuid_length.pos, uuid_length.val), LAMBDA b :
    Then(read_uint16(d, b.pos), LAMBDA author_id :
    Then(check_position(d, author_id.pos, sub.val), LAMBDA exit :
    Ok(exit.pos, [key |-> author_id.val, value |-> UUID(b.val)]))))))

\* for _ in range(num_subblocks): ... author_ids[author_id] = uuid
RECURSIVE AuthorIdsBlock_entries(_, _, _, _)
AuthorIdsBlock_entries(d, p, num_subblocks, author_ids) ==
    IF num_subblocks = 0 THEN Ok(p, author_ids)
    ELSE Then(AuthorIdsBlock_entry(d, p), LAMBDA entry :
         AuthorIdsBlock_entries(d, entry.pos, num_subblocks - 1,
                                dict_set(author_ids, entry.val.key,
                                         entry.val.value)))

\* AuthorIdsBlock.from_stream
AuthorIdsBlock_from_stream(d, p, cb) ==
    Then(read_varuint(d, p), LAMBDA num_subblocks :
    Then(AuthorIdsBlock_entries(d, num_subblocks.pos, num_subblocks.val, <<>>),
         LAMBDA author_ids :
    Ok(author_ids.pos,
       Block("AuthorIdsBlock", [author_uuids |-> author_ids.val]))))

\* the four anchor reads of TreeNodeBlock.from_stream
TreeNodeBlock_anchor(d, p) ==
    Then(read_lww_id(d, p, 7), LAMBDA anchor_id :
    Then(read_lww_byte(d, anchor_id.pos, 8), LAMBDA anchor_type :
    Then(read_lww_float(d, anchor_type.pos, 9), LAMBDA anchor_threshold :
    Then(read_lww_float(d, anchor_threshold.pos, 10), LAMBDA anchor_origin_x :
    Ok(anchor_origin_x.pos,
       [anchor_id |-> Some(anchor_id.val),
        anchor_type |-> Some(anchor_type.val),
        anchor_threshold |-> Some(anchor_threshold.val),
        anchor_origin_x |-> Some(anchor_origin_x.val)])))))

\* TreeNodeBlock.from_stream
TreeNodeBlock_from_stream(d, p, cb) ==
    Then(read_id(d, p, 1), LAMBDA node_id :
    Then(read_lww_string(d, node_id.pos, 2), LAMBDA label :
    Then(read_lww_bool(d, label.pos, 3), LAMBDA visible :
    Then(IF bytes_remaining_in_block(cb, visible.pos) > 0
         THEN TreeNodeBlock_anchor(d, visible.pos)
         ELSE Ok(visible.pos,
                 [anchor_id |-> None, anchor_type |-> None,
                  anchor_threshold |-> None, anchor_origin_x |-> None]),
         LAMBDA anchor :
    Ok(anchor.pos,
       Block("TreeNodeBlock",
             [group |-> [Group(node_id.val) EXCEPT
                            !.label = label.val,
                            !.visible = visible.val,
                            !.anchor_id = anchor.val.anchor_id,
                            !.anchor_type = anchor.val.anchor_type,
                            !.anchor_threshold = anchor.val.anchor_threshold,
                            !.anchor_origin_x = anchor.val.anchor_origin_x]]))))))

\* text_item_from_stream up to deleted_length: val is the four values read
text_item_from_stream_ids(d, p) ==
    Then(read_id(d, p, 2), LAMBDA item_id :
    Then(read_id(d, item_id.pos, 3), LAMBDA left_id :
    Then(read_id(d, left_id.pos, 4), LAMBDA right_id :
    Then(read_int(d, right_id.pos, 5), LAMBDA deleted_length :
    Ok(deleted_length.pos,
       [item_id |-> item_id.val, left_id |-> left_id.val,
        right_id |-> right_id.val,
        deleted_length |-> deleted_length.val])))))

\* the value text_item_from_stream reads after deleted_length, cb being
\* the reader's current_block (None or Some(info))
text_item_from_stream_value(d, p, cb) ==
    Then(has_subblock(d, p, cb, 6), LAMBDA has :
    IF has.val
    THEN Then(read_string_with_format(d, has.pos, 6), LAMBDA text :
         Ok(text.pos,
            IF text.val[2] # None THEN FormatValue(text.val[2][1])
            ELSE TextValue(text.val[1])))
    ELSE Ok(has.pos, TextValue(<<>>)))

\* text_item_from_stream
text_item_from_stream(d, p, cb) ==
    Then(read_subblock_enter(d, p, 0), LAMBDA sub :
    Then(text_item_from_stream_ids(d, sub.pos), LAMBDA ids :
    Then(text_item_from_stream_value(d, ids.pos, cb), LAMBDA value :
    Then(check_position(d, value.pos, sub.val), LAMBDA exit :
    Ok(exit.pos,
       CrdtSequenceItem(ids.val.item_id, ids.val.left_id, ids.val.right_id,
                        ids.val.deleted_length, value.val))))))

\* [text_item_from_stream(stream) for _ in range(num_subblocks)]
RECURSIVE read_text_items(_, _, _, _)
read_text_items(d, p, cb, num_subblocks) ==
    IF num_subblocks = 0 THEN Ok(p, <<>>)
    ELSE Then(text_item_from_stream(d, p, cb), LAMBDA item :
         Then(read_text_items(d, item.pos, cb, num_subblocks - 1), LAMBDA rest :
         Ok(rest.pos, <<item.val>> \o rest.val)))

\* text_format_from_stream: si.ParagraphStyle is no attribute of
\* scene_items, and AttributeError is not what the try around it catches
text_format_from_stream(d, p) ==
    Then(read_crdt_id(d, p), LAMBDA char_id :
    Then(read_id(d, char_id.pos, 1), LAMBDA timestamp :
    Then(read_subblock_enter(d, timestamp.pos, 2), LAMBDA sub :
    Then(read_uint8(d, sub.pos), LAMBDA c :
    IF c.val # 17 THEN Raise("AssertionError", c.pos)
    ELSE
    Then(read_uint8(d, c.pos), LAMBDA format_code :
    Raise("AttributeError", format_code.pos))))))

\* the text items of RootTextBlock.from_stream: the two sub-blocks 1 with
\* the items in them
RootTextBlock_text_items(d, p, cb) ==
    Then(read_subblock_enter(d, p, 1), LAMBDA outer :
    Then(read_subblock_enter(d, outer.pos, 1), LAMBDA inner :
    Then(read_varuint(d, inner.pos), LAMBDA num_subblocks :
    Then(read_text_items(d, num_subblocks.pos, cb, num_subblocks.val),
         LAMBDA text_items :
    Then(check_position(d, text_items.pos, inner.val), LAMBDA exit_inner :
    Then(check_position(d, exit_inner.pos, outer.val), LAMBDA exit_outer :
    Ok(exit_outer.pos, text_items.val)))))))

\* the formatting of RootTextBlock.from_stream: dict(..) of no formats is
\* the empty dict, and the first format read raises
RootTextBlock_text_formats(d, p) ==
    Then(read_subblock_enter(d, p, 2), LAMBDA outer :
    Then(read_subblock_enter(d, outer.pos, 1), LAMBDA inner :
    Then(read_varuint(d, inner.pos), LAMBDA num_subblocks :
    Then(IF num_subblocks.val = 0 THEN Ok(num_subblocks.pos, <<>>)
         ELSE text_format_from_stream(d, num_subblocks.pos),
         LAMBDA text_formats :
    Then(check_position(d, text_formats.pos, inner.val), LAMBDA exit_inner :
    Then(check_position(d, exit_inner.pos, outer.val), LAMBDA exit_outer :
    Ok(exit_outer.pos, text_formats.val)))))))

\* the with stream.read_subblock(2) of RootTextBlock.from_stream
RootTextBlock_text(d, p, cb) ==
    Then(read_subblock_enter(d, p, 2), LAMBDA sub :
    Then(RootTextBlock_text_items(d, sub.pos, cb), LAMBDA text_items :
    Then(RootTextBlock_text_formats(d, text_items.pos), LAMBDA text_formats :
    Then(check_position(d, text_formats.pos, sub.val), LAMBDA exit :
    Ok(exit.pos,
       [text_items |-> text_items.val, text_formats |-> text_formats.val])))))

\* the last section of RootTextBlock.from_stream: val is <<pos_x, pos_y>>
RootTextBlock_position(d, p) ==
    Then(read_subblock_enter(d, p, 3), LAMBDA sub :
    Then(read_float64(d, sub.pos), LAMBDA pos_x :
    Then(read_float64(d, pos_x.pos), LAMBDA pos_y :
    Then(check_position(d, pos_y.pos, sub.val), LAMBDA exit :
    Ok(exit.pos, <<pos_x.val, pos_y.val>>)))))

\* RootTextBlock.from_stream.  si.Text(items=, styles=, pos_x=, pos_y=,
\* width=) names a field, styles, that si.Text does not have: TypeError.
RootTextBlock_from_stream(d, p, cb) ==
    Then(read_id(d, p, 1), LAMBDA block_id :
    IF block_id.val # CrdtId(0, 0) THEN Raise("AssertionError", block_id.pos)
    ELSE
    Then(RootTextBlock_text(d, block_id.pos, Some(cb)), LAMBDA text :
    Then(RootTextBlock_position(d, text.pos), LAMBDA position :
    Then(read_float(d, position.pos, 4), LAMBDA width :
    Raise("TypeError", width.pos)))))

\* <class>.from_stream(reader) for the class Block.lookup found
from_stream(kind, d, p, cb) ==
    CASE kind = "SceneInfo" -> SceneInfo_from_stream(d, p, cb)
      [] kind = "AuthorIdsBlock" -> AuthorIdsBlock_from_stream(d, p, cb)
      [] kind = "MigrationInfoBlock" -> MigrationInfoBlock_from_stream(d, p, cb)
      [] kind = "TreeNodeBlock" -> TreeNodeBlock_from_stream(d, p, cb)
      [] kind = "PageInfoBlock" -> PageInfoBlock_from_stream(d, p, cb)
      [] kind = "SceneTreeBlock" -> SceneTreeBlock_from_stream(d, p, cb)
      [] kind = "RootTextBlock" -> RootTextBlock_from_stream(d, p, cb)
      [] kind \in {"SceneGlyphItemBlock", "SceneGroupItemBlock",
                   "SceneLineItemBlock", "SceneTextItemBlock",
                   "SceneTombstoneItemBlock"} ->
            SceneItemBlock_from_stream(d, p, cb)

(***************************************************************************)
(* tagged_block_writer.py: TaggedBlockWriter.  A write is the byte string  *)
(* it appends to the writer's current sink.                                *)
(***************************************************************************)

write_id(index, value) == write_tag(index, TagID) \o write_crdt_id(value)
write_bool(index, value) == write_tag(index, TagByte1) \o DS_write_bool(value)
write_byte(index, value) == write_tag(index, TagByte1) \o write_uint8(value)
write_int(index, value) == write_tag(index, TagByte4) \o write_uint32(value)
write_float(index, value) == write_tag(index, TagByte4) \o write_float32(value)
write_double(index, value) == write_tag(index, TagByte8) \o write_float64(value)

\* write_subblock whose length field counts its own tag and length
write_subblock_own_length(index, body) ==
    IF write_err(body) # "" THEN WriteRaise(write_err(body))
    ELSE write_tag(index, TagLength4) \o write_uint32(Len(body) + 5) \o body

\* write_subblock around a body that wrote `body`: when the body raised,
\* what it wrote is dropped with the buffer and the exception goes on
write_subblock(index, body) ==
    IF write_err(body) # "" THEN WriteRaise(write_err(body))
    ELSE write_tag(index, TagLength4) \o write_uint32(Len(body)) \o body

\* higher level constructs
write_lww_bool(index, value) ==
    write_subblock(index, write_id(1, value.timestamp) \o write_bool(2, value.value))
write_lww_byte(index, value) ==
    write_subblock(index, write_id(1, value.timestamp) \o write_byte(2, value.value))
write_lww_float(index, value) ==
    write_subblock(index, write_id(1, value.timestamp) \o write_float(2, value.value))
write_lww_id(index, value) ==
    write_subblock(index, write_id(1, value.timestamp) \o write_id(2, value.value))

\* value.encode() is the first statement inside the sub-block: when it
\* raises, nothing was written to the sub-block's buffer
write_string(index, value) ==
    LET b == encode(value)
        bytes_length == Len(b)
        is_ascii == TRUE
    IN  write_subblock(index,
            IF write_err(b) # "" THEN WriteRaise(write_err(b))
            ELSE write_varuint(bytes_length) \o DS_write_bool(is_ascii) \o b)

write_lww_string(index, value) ==
    write_subblock(index, write_id(1, value.timestamp) \o write_string(2, value.value))

write_string_with_format(index, text, fmt) ==
    LET b == encode(text)
        bytes_length == Len(b)
        is_ascii == TRUE
    IN  write_subblock(index,
            IF write_err(b) # "" THEN WriteRaise(write_err(b))
            ELSE write_varuint(bytes_length) \o DS_write_bool(is_ascii) \o b
                 \o write_int(2, fmt))

write_int_pair(index, value) ==
    write_subblock(index, write_uint32(value[1]) \o write_uint32(value[2]))

\* write_block around a body that wrote `body` and left normally
write_block(block_type, min_version, current_version, body) ==
    IF write_err(body) # "" THEN WriteRaise(write_err(body))
    ELSE write_uint32(Len(body)) \o write_uint8(0) \o write_uint8(min_version)
         \o write_uint8(current_version) \o write_uint8(block_type) \o body

(***************************************************************************)
(* scene_stream.py: to_stream, version_info, Block.write, Block.read       *)
(***************************************************************************)

\* MigrationInfoBlock.to_stream
MigrationInfoBlock_to_stream(f, opts) ==
    LET version == options_get_version(opts, <<9, 9, 9>>)
    IN  write_id(1, f.migration_id) \o write_bool(2, f.is_device)
        \o (IF VersionGE(version, <<3, 2, 2>>)
            THEN write_bool(3, f.unknown) ELSE <<>>)

\* PageInfoBlock.to_stream
PageInfoBlock_to_stream(f, opts) ==
    LET version == options_get_version(opts, <<9999>>)
    IN  write_int(1, f.loads_count) \o write_int(2, f.merges_count)
        \o write_int(3, f.text_chars_count) \o write_int(4, f.text_lines_count)
        \o (IF VersionGE(version, <<3, 2, 2>>)
            THEN write_int(5, f.type_folio_use_count) ELSE <<>>)

\* SceneTreeBlock.to_stream
SceneTreeBlock_to_stream(f) ==
    write_id(1, f.tree_id) \o write_id(2, f.node_id)
    \o write_bool(3, f.is_update)
    \o write_subblock(4, write_id(1, f.parent_id))

\* point_to_stream: speed, direction, width and pressure are integers or
\* floats; the divisions of version 1 are true divisions, which give floats
point_to_stream(point, version) ==
    IF version \notin {1, 2} THEN WriteRaise("ValueError")
    ELSE
    write_float32(point.x) \o write_float32(point.y)
    \o (IF version = 1
        THEN write_float32(Scaled(to_float(point.speed), -2))
             \o write_float32(FloatDiv(FloatMul(to_float(point.direction), TWO_PI),
                                       IntFloat(255)))
             \o write_float32(Scaled(to_float(point.width), -2))
             \o write_float32(FloatDiv(to_float(point.pressure), IntFloat(255)))
        ELSE write_uint16(point.speed) \o write_uint16(point.width)
             \o write_uint8(point.direction) \o write_uint8(point.pressure))

\* for point in line.points: point_to_stream(point, writer, version)
RECURSIVE points_to_stream(_, _)
points_to_stream(points, version) ==
    IF points = <<>> THEN <<>>
    ELSE point_to_stream(Head(points), version)
         \o points_to_stream(Tail(points), version)

\* line_to_stream: line.move_id is read of a si.Line, which has no such
\* attribute: AttributeError after timestamp is written
line_to_stream(line, version) ==
    write_int(1, line.tool) \o write_int(2, line.color)
    \o write_double(3, line.thickness_scale)
    \o write_float(4, line.starting_length)
    \o write_subblock(5, points_to_stream(line.points, version))
    \o write_id(6, CrdtId(0, 1))
    \o WriteRaise("AttributeError")

\* for rect in item.rectangles: four write_float64
RECURSIVE rectangles_to_stream(_)
rectangles_to_stream(rectangles) ==
    IF rectangles = <<>> THEN <<>>
    ELSE write_float64(Head(rectangles).x) \o write_float64(Head(rectangles).y)
         \o write_float64(Head(rectangles).w) \o write_float64(Head(rectangles).h)
         \o rectangles_to_stream(Tail(rectangles))

\* glyph_range_to_stream
glyph_range_to_stream(item) ==
    (IF item.start # None
     THEN write_int(2, item.start[1]) \o write_int(3, item.length)
     ELSE <<>>)
    \o write_int(4, item.color)
    \o write_string(5, item.text)
    \o write_subblock(6, write_varuint(Len(item.rectangles))
                         \o rectangles_to_stream(item.rectangles))

\* SceneLineItemBlock.value_to_stream
line_value_to_stream(value, opts) ==
    LET version == options_get_version(opts, <<9999>>)
        line_version == IF VersionGT(version, <<3, 0>>) THEN 2 ELSE 1
    IN  line_to_stream(value, line_version)

\* value_to_stream of the item kinds
value_to_stream(kind, value, opts) ==
    CASE kind = "SceneGroupItemBlock" -> write_id(2, value)
      [] kind = "SceneLineItemBlock" -> line_value_to_stream(value, opts)
      [] kind = "SceneGlyphItemBlock" -> glyph_range_to_stream(value)
      [] kind \in {"SceneTextItemBlock", "SceneTombstoneItemBlock"} -> <<>>

\* SceneItemBlock.to_stream
SceneItemBlock_to_stream(kind, f, opts) ==
    write_id(1, f.parent_id) \o write_id(2, f.item.item_id)
    \o write_id(3, f.item.left_id) \o write_id(4, f.item.right_id)
    \o write_int(5, f.item.deleted_length)
    \o (IF f.item.value # None
        THEN write_subblock(6, write_uint8(ITEM_TYPE(kind))
                               \o value_to_stream(kind, f.item.value[1], opts)
                               \o f.extra_value_data)
        ELSE <<>>)

\* UnreadableBlock.to_stream
UnreadableBlock_to_stream(f) == f.data

\* SceneInfo.to_stream: an LwwValue and a pair of ints are true whatever
\* they hold, so each optional part is written when it is not None
SceneInfo_to_stream(f) ==
    write_lww_id(1, f.current_layer)
    \o (IF f.background_visible # None
        THEN write_lww_bool(2, f.background_visible[1]) ELSE <<>>)
    \o (IF f.root_document_visible # None
        THEN write_lww_bool(3, f.root_document_visible[1]) ELSE <<>>)
    \o (IF f.paper_size # None
        THEN write_int_pair(5, f.paper_size[1]) ELSE <<>>)

\* for author_id, uuid in self.author_uuids.items(): one sub-block 0 each
RECURSIVE author_uuids_to_stream(_)
author_uuids_to_stream(author_uuids) ==
    IF author_uuids = <<>> THEN <<>>
    ELSE write_subblock(0,
             write_varuint(Len(bytes_le(Head(author_uuids).value.bytes)))
             \o bytes_le(Head(author_uuids).value.bytes)
             \o write_uint16(Head(author_uuids).key))
         \o author_uuids_to_stream(Tail(author_uuids))

\* AuthorIdsBlock.to_stream
AuthorIdsBlock_to_stream(f) ==
    write_varuint(Len(f.author_uuids)) \o author_uuids_to_stream(f.author_uuids)

\* TreeNodeBlock.to_stream
TreeNodeBlock_to_stream(f) ==
    LET group == f.group
    IN  write_id(1, group.node_id)
        \o write_lww_string(2, group.label)
        \o write_lww_bool(3, group.visible)
        \o (IF group.anchor_id # None
            THEN IF ~(/\ group.anchor_type # None
                      /\ group.anchor_threshold # None
                      /\ group.anchor_origin_x # None)
                 THEN WriteRaise("AssertionError")
                 ELSE write_lww_id(7, group.anchor_id[1])
                      \o write_lww_byte(8, group.anchor_type[1])
                      \o write_lww_float(9, group.anchor_threshold[1])
                      \o write_lww_float(10, group.anchor_origin_x[1])
            ELSE <<>>)

\* text_item_to_stream: a str that is not empty is written as a string, an
\* int that is not 0 as an empty string with the format
text_item_to_stream(item) ==
    write_subblock(0,
        write_id(2, item.item_id) \o write_id(3, item.left_id)
        \o write_id(4, item.right_id) \o write_int(5, item.deleted_length)
        \o (IF item.value.fmt = None
            THEN IF item.value.text # <<>>
                 THEN write_string(6, item.value.text) ELSE <<>>
            ELSE IF item.value.fmt[1] # 0
                 THEN write_string_with_format(6, <<>>, item.value.fmt[1])
                 ELSE <<>>))

\* for item in text_items: text_item_to_stream(item, writer)
RECURSIVE text_items_to_stream(_)
text_items_to_stream(text_items) ==
    IF text_items = <<>> THEN <<>>
    ELSE text_item_to_stream(Head(text_items))
         \o text_items_to_stream(Tail(text_items))

\* text_format_to_stream
text_format_to_stream(char_id, value) ==
    write_crdt_id(char_id) \o write_id(1, value.timestamp)
    \o write_subblock(2, write_uint8(17) \o write_uint8(value.value))

\* RootTextBlock.to_stream: self.value.styles is read of a si.Text, which
\* has no such attribute: AttributeError inside the sub-block 2, after the
\* text items are written to its buffer
RootTextBlock_to_stream(f) ==
    write_id(1, f.block_id)
    \o write_subblock(2,
           write_subblock(1,
               write_subblock(1, write_varuint(Len(f.value.items))
                                 \o text_items_to_stream(f.value.items)))
           \o WriteRaise("AttributeError"))

\* block.to_stream(writer)
to_stream(block, opts) ==
    CASE block.kind = "SceneInfo" -> SceneInfo_to_stream(block.f)
      [] block.kind = "AuthorIdsBlock" -> AuthorIdsBlock_to_stream(block.f)
      [] block.kind = "MigrationInfoBlock" -> MigrationInfoBlock_to_stream(block.f, opts)
      [] block.kind = "TreeNodeBlock" -> TreeNodeBlock_to_stream(block.f)
      [] block.kind = "PageInfoBlock" -> PageInfoBlock_to_stream(block.f, opts)
      [] block.kind = "SceneTreeBlock" -> SceneTreeBlock_to_stream(block.f)
      [] block.kind = "RootTextBlock" -> RootTextBlock_to_stream(block.f)
      [] block.kind = "UnreadableBlock" -> UnreadableBlock_to_stream(block.f)
      [] block.kind \in {"SceneGlyphItemBlock", "SceneGroupItemBlock",
                         "SceneLineItemBlock", "SceneTextItemBlock",
                         "SceneTombstoneItemBlock"} ->
            SceneItemBlock_to_stream(block.kind, block.f, opts)

\* version_info: Block's default (1, 1) stands for every class that does not
\* override it, UnreadableBlock included.
version_info(block, opts) ==
    LET version == options_get_version(opts, <<9999>>)
    IN  CASE block.kind \in {"SceneInfo", "PageInfoBlock"} -> <<0, 1>>
          [] block.kind = "TreeNodeBlock" ->
                IF VersionGE(version, <<3, 4>>) THEN <<1, 2>> ELSE <<1, 1>>
          [] block.kind = "SceneLineItemBlock" ->
                IF VersionGT(version, <<3, 0>>) THEN <<2, 2>> ELSE <<1, 1>>
          [] OTHER -> <<1, 1>>

\* get_block_type
get_block_type(block) ==
    CASE block.kind = "UnreadableBlock" -> block.f.info.block_type
      [] block.kind = "MigrationInfoBlock" -> MigrationInfoBlock_BLOCK_TYPE
      [] block.kind = "PageInfoBlock" -> PageInfoBlock_BLOCK_TYPE
      [] block.kind = "SceneTreeBlock" -> SceneTreeBlock_BLOCK_TYPE
      [] block.kind = "SceneInfo" -> SceneInfo_BLOCK_TYPE
      [] block.kind = "AuthorIdsBlock" -> AuthorIdsBlock_BLOCK_TYPE
      [] block.kind = "TreeNodeBlock" -> TreeNodeBlock_BLOCK_TYPE
      [] block.kind = "RootTextBlock" -> RootTextBlock_BLOCK_TYPE
      [] block.kind = "SceneGlyphItemBlock" -> SceneGlyphItemBlock_BLOCK_TYPE
      [] block.kind = "SceneGroupItemBlock" -> SceneGroupItemBlock_BLOCK_TYPE
      [] block.kind = "SceneLineItemBlock" -> SceneLineItemBlock_BLOCK_TYPE
      [] block.kind = "SceneTextItemBlock" -> SceneTextItemBlock_BLOCK_TYPE
      [] block.kind = "SceneTombstoneItemBlock" -> SceneTombstoneItemBlock_BLOCK_TYPE

\* Block.write without the line that writes block.extra_data
Block_write_no_extra(block, opts) ==
    LET v == version_info(block, opts)
    IN  write_block(get_block_type(block), v[1], v[2], to_stream(block, opts))

\* Block.write: the bytes the block adds to the output
Block_write(block, opts) ==
    LET v == version_info(block, opts)
    IN  write_block(get_block_type(block), v[1], v[2],
                    to_stream(block, opts) \o block.extra_data)

UnreadableBlock(error, bytes, info) ==
    Block("UnreadableBlock", [error |-> error, data |-> bytes, info |-> info])

\* The body of the with statement of Block.read, entered with block_info at
\* position p: val is [block, fs] where fs is the result of from_stream (a
\* result without error at p when from_stream was not called).  When
\* read_bytes raises, val holds fs alone.
Block_read_body(d, p, block_info) ==
    LET block_type == lookup(block_info.block_type)
    IN
    IF block_type # ""
    THEN Bind(from_stream(block_type, d, p, block_info), LAMBDA fs :
         IF fs.err = ""
         THEN Ok(fs.pos, [block |-> fs.val, fs |-> fs])
         ELSE Bind(read_bytes(d, block_info.offset, block_info.size),
                   LAMBDA bytes :
              IF bytes.err # "" THEN [bytes EXCEPT !.val = [fs |-> fs]]
              ELSE Ok(bytes.pos,
                      [block |-> UnreadableBlock(fs.err, bytes.val, block_info),
                       fs |-> fs])))
    ELSE Bind(read_bytes(d, p, block_info.size), LAMBDA bytes :
         IF bytes.err # "" THEN [bytes EXCEPT !.val = [fs |-> Ok(p, <<>>)]]
         ELSE Ok(bytes.pos,
                 [block |-> UnreadableBlock("Unknown block type", bytes.val,
                                            block_info),
                  fs |-> Ok(p, <<>>)]))

\* What Block.read hands back.  outcome: "block" (a block is returned), "none"
\* (None is returned: no more blocks) or "raise" (err leaves Block.read).  cb
\* is the reader's current_block afterwards; info and fs describe the block
\* header read and what from_stream did.
ReadResult(outcome, err, p, cb, block, info, fs) ==
    [outcome |-> outcome, err |-> err, pos |-> p, cb |-> cb, block |-> block,
     info |-> info, fs |-> fs]

\* The block Block.read returns: block_info, with the extra_data
\* _check_position stored in it, is the info of an UnreadableBlock, and its
\* extra_data becomes the block's.
Block_read_return(block, block_info) ==
    [(IF block.kind = "UnreadableBlock"
      THEN [block EXCEPT !.f.info = block_info]
      ELSE block) EXCEPT !.extra_data = block_info.extra_data]

\* Block.read
Block_read(d, p, cb) ==
    Bind(read_block_enter(d, p, cb), LAMBDA enter :
    IF enter.err # ""
    THEN ReadResult("raise", enter.err, enter.pos, cb, None, None, Ok(p, <<>>))
    ELSE IF enter.val = None
    THEN ReadResult("none", "", enter.pos, cb, None, None, Ok(p, <<>>))
    ELSE
    Bind(Block_read_body(d, enter.pos, enter.val[1]), LAMBDA body :
    IF body.err # ""
    THEN ReadResult("raise", body.err, body.pos, enter.val, None, enter.val,
                    body.val.fs)
    ELSE
    Bind(check_position(d, body.pos, enter.val[1]), LAMBDA exit :
    IF exit.err # ""
    THEN ReadResult("raise", exit.err, exit.pos, enter.val, None, enter.val,
                    body.val.fs)
    ELSE ReadResult("block", "", exit.pos, None,
                    Some(Block_read_return(body.val.block, exit.val)),
                    enter.val, body.val.fs))))

(***************************************************************************)
(* The input streams of the model.  A stream is HEADER_V6 followed by at    *)
(* most MaxBlocks frames drawn from a catalogue: blocks as a producer of   *)
(* the given version writes them, blocks a newer producer could write      *)
(* (unknown types, trailing fields), damaged blocks and a truncated one.   *)
(***************************************************************************)

MaxBlocks == 2

\* u32 length (below 256), reserved 0, min_version, current_version, type
Frame(length, min_version, current_version, block_type, body) ==
    <<length, 0, 0, 0, 0, min_version, current_version, block_type>> \o body

Framed(min_version, current_version, block_type, body) ==
    Frame(Len(body), min_version, current_version, block_type, body)

ProducerVersions == {<<3, 0>>, <<3, 2, 2>>}

\* 1f 0101  21 01  [31 00]
MigBody(v) ==
    <<31, 1, 1, 33, 1>> \o (IF VersionGE(v, <<3, 2, 2>>) THEN <<49, 0>> ELSE <<>>)

\* 14 01000000  24 00000000  34 03000000  44 01000000  [54 00000000]
PageBody(v) ==
    <<20, 1, 0, 0, 0, 36, 0, 0, 0, 0, 52, 3, 0, 0, 0, 68, 1, 0, 0, 0>>
    \o (IF VersionGE(v, <<3, 2, 2>>) THEN <<84, 0, 0, 0, 0>> ELSE <<>>)

\* 1f 000b  2f 0000  31 01  4c <n>000000  1f 0001 <tail>
TreeBody(tail) ==
    <<31, 0, 11, 47, 0, 0, 49, 1, 76, 3 + Len(tail), 0, 0, 0, 31, 0, 1>> \o tail

\* 1f 0001  2f 000d  3f 0000  4f 0000  54 00000000
ItemFrame == <<31, 0, 1, 47, 0, 13, 63, 0, 0, 79, 0, 0, 84, 0, 0, 0, 0>>

\* 6c <n>000000 <payload>
Payload(payload) == <<108, Len(payload), 0, 0, 0>> \o payload

\* a block of type 0x0B, for which Block.lookup finds no class
UnknownFrame(min_version, current_version, body) ==
    Framed(min_version, current_version, 11, body)

Catalogue(v) ==
    { \* blocks as a producer of version v writes them
      Framed(1, 1, MigrationInfoBlock_BLOCK_TYPE, MigBody(v)),
      Framed(0, 1, PageInfoBlock_BLOCK_TYPE, PageBody(v)),
      Framed(1, 1, SceneTreeBlock_BLOCK_TYPE, TreeBody(<<>>)),
      Framed(1, 1, SceneGroupItemBlock_BLOCK_TYPE,
             ItemFrame \o Payload(<<2, 47, 0, 11>>)),
      Framed(1, 1, SceneTextItemBlock_BLOCK_TYPE, ItemFrame),
      \* blocks with data this reader does not know
      Framed(1, 1, MigrationInfoBlock_BLOCK_TYPE, MigBody(v) \o <<143, 1, 1, 1>>),
      Framed(1, 1, SceneTreeBlock_BLOCK_TYPE, TreeBody(<<47, 0, 7>>)),
      Framed(1, 1, SceneGroupItemBlock_BLOCK_TYPE,
             ItemFrame \o Payload(<<2, 47, 0, 11, 63, 0, 7>>)),
      Framed(1, 1, SceneTextItemBlock_BLOCK_TYPE, ItemFrame \o Payload(<<5>>)),
      Framed(1, 1, SceneTombstoneItemBlock_BLOCK_TYPE,
             ItemFrame \o Payload(<<0>>)),
      UnknownFrame(1, 1, <<170, 187>>),
      UnknownFrame(0, 1, <<170>>),
      UnknownFrame(2, 2, <<>>),
      \* a bad tag type (2a) inside a known block
      Framed(1, 1, MigrationInfoBlock_BLOCK_TYPE, <<31, 1, 1, 42, 1>>),
      \* an item payload that starts with another kind's item type
      Framed(1, 1, SceneGroupItemBlock_BLOCK_TYPE, ItemFrame \o Payload(<<3>>)),
      \* a sub-block one byte shorter than the id read inside it
      Framed(1, 1, SceneTreeBlock_BLOCK_TYPE,
             <<31, 0, 11, 47, 0, 0, 49, 1, 76, 2, 0, 0, 0, 31, 0, 1>>),
      \* a length one short of what from_stream reads
      Frame(15, 1, 1, SceneTreeBlock_BLOCK_TYPE, SubSeq(TreeBody(<<>>), 1, 15)),
      \* a block cut off after 3 of its 5 bytes
      Frame(5, 1, 1, MigrationInfoBlock_BLOCK_TYPE, <<31, 1, 1>>)
    }

RECURSIVE Bodies(_, _)
Bodies(v, n) ==
    IF n = 0 THEN {<<>>}
    ELSE LET shorter == Bodies(v, n - 1)
         IN  shorter \cup {b \o c : b \in {x \in shorter : TRUE}, c \in Catalogue(v)}

Streams(v) ==
    {HEADER_V6 \o b : b \in Bodies(v, MaxBlocks)}
    \cup {SubSeq(HEADER_V6, 1, 42) \o <<10>>}

\* The options mappings a caller passes: None, or {"version": "<release>"}.
\* parsed tells whether options["version"] is a Version object.
NoOptions == [given |-> FALSE, has_version |-> FALSE, version |-> <<>>, parsed |-> FALSE]
VersionOption(v) == [given |-> TRUE, has_version |-> TRUE, version |-> v, parsed |-> FALSE]
OptionChoices ==
    {NoOptions, VersionOption(<<3, 0>>), VersionOption(<<3, 1>>),
     VersionOption(<<3, 2, 2>>)}

(***************************************************************************)
(* write_blocks(out, read_blocks(data), options): the reader generator is  *)
(* advanced by the writer's for loop, one block at a time.                 *)
(***************************************************************************)

NoRead ==
    [outcome |-> "", err |-> "", hdr |-> 0, info |-> None,
     fs_called |-> FALSE, fs_err |-> "", fs_pos |-> 0]
NoWrite == [at |-> 0, bytes |-> <<>>, err |-> "", block |-> None]
NoCall ==
    [op |-> "", index |-> 0, tag_type |-> 0, optional |-> FALSE,
     default |-> <<>>, before |-> 0, in_block |-> FALSE, err |-> "",
     val |-> <<>>]
\* no CrdtSequenceComparison is running
NoEdit ==
    /\ string = <<>>
    /\ string_items = <<>>
    /\ last_id = 1

\* no TaggedBlockWriter is in a client's hands
NoWriter == <<>>

\* no function is applied on its own
NoArg ==
    /\ arg = <<>>
    /\ ret = <<>>
    /\ tree = <<>>
    /\ given = <<>>
    /\ writer = NoWriter

NotIterated ==
    [ran |-> FALSE, reordered |-> FALSE, ids |-> <<>>, err |-> "",
     added |-> <<>>, add_err |-> "", prev_ids |-> <<>>, prev_err |-> ""]

InitStream ==
    /\ producer \in ProducerVersions
    /\ data \in Streams(producer)
    /\ options \in OptionChoices
    /\ pos = 0
    /\ current_block = None
    /\ blocks = <<>>
    /\ out = <<>>
    /\ pc = "start"
    /\ lastRead = NoRead
    /\ lastWrite = NoWrite
    /\ scopes = <<>>
    /\ last = NoCall
    /\ items = <<>>
    /\ order = NotIterated
    /\ NoEdit
    /\ NoArg

\* write_blocks up to its for loop: options["version"] becomes a Version,
\* the writer is made and writes the header.
write_blocks_begin ==
    /\ pc = "start"
    /\ options' = IF options.given /\ options.has_version
                  THEN [options EXCEPT !.parsed = TRUE]
                  ELSE options
    /\ out' = out \o HEADER_V6
    /\ pc' = "header"
    /\ UNCHANGED <<data, pos, current_block, blocks, producer, lastRead,
                   lastWrite, apiVars, crdtVars, restVars>>

\* read_blocks up to _read_blocks: read_header
read_header ==
    /\ pc = "header"
    /\ \E header \in {read_bytes(data, pos, Len(HEADER_V6))} :
           /\ pos' = header.pos
           /\ pc' = IF header.err # "" THEN "error"
                    ELSE IF header.val # HEADER_V6 THEN "error"
                    ELSE "read"
           /\ lastRead' = [NoRead EXCEPT
                             !.outcome = IF pc' = "error" THEN "raise" ELSE "",
                             !.err = IF header.err # "" THEN header.err
                                     ELSE IF pc' = "error" THEN "ValueError"
                                     ELSE ""]
    /\ UNCHANGED <<data, current_block, blocks, out, options, producer,
                   lastWrite, apiVars, crdtVars, restVars>>

\* One turn of _read_blocks: Block.read, then yield the block or return
BlockRead ==
    /\ pc = "read"
    /\ \E r \in {Block_read(data, pos, current_block)} :
           /\ pos' = r.pos
           /\ current_block' = r.cb
           /\ blocks' = blocks \o r.block
           /\ pc' = CASE r.outcome = "block" -> "write"
                      [] r.outcome = "none" -> "done"
                      [] r.outcome = "raise" -> "error"
           /\ lastRead' = [outcome |-> r.outcome, err |-> r.err, hdr |-> pos,
                           info |-> r.info,
                           fs_called |-> r.info # None
                                         /\ lookup(r.info[1].block_type) # "",
                           fs_err |-> r.fs.err, fs_pos |-> r.fs.pos]
    /\ UNCHANGED <<data, out, options, producer, lastWrite, apiVars, crdtVars, restVars>>

\* The body of write_blocks' for loop: block.write(stream); an exception of
\* the write leaves write_blocks
BlockWrite ==
    /\ pc = "write"
    /\ \E bytes \in {Block_write(blocks[Len(blocks)], options)} :
           /\ out' = out \o written(bytes)
           /\ lastWrite' = [at |-> Len(out), bytes |-> written(bytes),
                            err |-> write_err(bytes),
                            block |-> Some(blocks[Len(blocks)])]
           /\ pc' = IF write_err(bytes) # "" THEN "error" ELSE "read"
    /\ UNCHANGED <<data, pos, current_block, blocks, options, producer,
                   lastRead, apiVars, crdtVars, restVars>>

Next ==
    \/ write_blocks_begin
    \/ read_header
    \/ BlockRead
    \/ BlockWrite

Spec == InitStream /\ [][Next]_vars

(***************************************************************************)
(* Properties of the pipeline                                              *)
(***************************************************************************)

\* The block the latest Block.read returned, its header and its bytes in the
\* input
LastBlock == blocks[Len(blocks)]
LastInfo == lastRead.info[1]
LastBodyEnd == LastInfo.offset + LastInfo.size
InputBody == SubSeq(data, LastInfo.offset + 1, LastBodyEnd)
InputFrame == SubSeq(data, lastRead.hdr + 1, LastBodyEnd)
WrittenBody == SubSeq(lastWrite.bytes, 9, Len(lastWrite.bytes))

\* from_stream was called on the latest block and returned / raised
Parsed == lastRead.fs_called /\ lastRead.fs_err = ""
FromStreamRaised == lastRead.fs_called /\ lastRead.fs_err # ""

\* the latest block read has been written and nothing has happened since
JustWritten == pc = "read" /\ lastRead.outcome = "block"

\* C1: when read_blocks has run through the whole input without raising and
\* options["version"] is the producer's version, the output equals the input.
C1_FullRoundTrip ==
    (pc = "done" /\ options.has_version /\ options.version = producer)
        => out = data

\* C2: when from_stream raised on a block, Block.read returned an
\* UnreadableBlock holding the block's whole body and the header as read, and
\* the reader is left outside any block exactly at start+length, the state in
\* which a parsed block leaves it.
C2_FromStreamFailureContained ==
    FromStreamRaised =>
        /\ lastRead.outcome = "block"
        /\ pc \in {"write", "read"}
        /\ LastBlock.kind = "UnreadableBlock"
        /\ LastBlock.f.data = InputBody
        /\ LastBlock.f.info = LastInfo
        /\ LastBlock.f.error = lastRead.fs_err
        /\ pos = LastBodyEnd
        /\ current_block = None

\* C2, for blocks that are whole: when from_stream raised on a block whose
\* declared body lies within the input, Block.read returned an UnreadableBlock holding the whole body and
\* the header as read, and the reader is left outside any block exactly at
\* start+length, the state in which a parsed block leaves it.
C2_ErrorContained ==
    (FromStreamRaised /\ LastBodyEnd <= Len(data)) =>
        /\ lastRead.outcome = "block"
        /\ pc \in {"write", "read"}
        /\ LastBlock.kind = "UnreadableBlock"
        /\ LastBlock.f.data = InputBody
        /\ LastBlock.f.info = LastInfo
        /\ LastBlock.f.error = lastRead.fs_err
        /\ pos = LastBodyEnd
        /\ current_block = None

\* a block whose from_stream raised before the end of its body has been
\* returned as an UnreadableBlock, and another block follows it in the input
C2_Witness ==
    /\ FromStreamRaised
    /\ lastRead.outcome = "block"
    /\ lastRead.fs_pos < LastBodyEnd
    /\ LastBlock.kind = "UnreadableBlock"
    /\ LastBodyEnd + 8 <= Len(data)

\* C3: an UnreadableBlock is written as the bytes it was read from, header
\* and body.
C3_UnreadableLossless ==
    (JustWritten /\ LastBlock.kind = "UnreadableBlock")
        => lastWrite.bytes = InputFrame

\* C4: the bytes from_stream left unread in a block are the block's
\* extra_data; Block.write puts them after to_stream's output, at the end of
\* the block it writes, under a length field that counts them; where
\* to_stream wrote what from_stream had consumed, the written body is the
\* input body.
C4_ExtraDataKept ==
    (Parsed /\ lastRead.outcome = "block") =>
        /\ LastBlock.extra_data = SubSeq(data, lastRead.fs_pos + 1, LastBodyEnd)
        /\ JustWritten =>
            /\ SubSeq(lastWrite.bytes, 1, 4) = write_uint32(Len(WrittenBody))
            /\ WrittenBody = to_stream(LastBlock, options) \o LastBlock.extra_data
            /\ to_stream(LastBlock, options)
                    = SubSeq(data, LastInfo.offset + 1, lastRead.fs_pos)
                => WrittenBody = InputBody

\* a parsed block with unread trailing bytes has been written
C4_Witness ==
    /\ Parsed
    /\ JustWritten
    /\ LastBlock.extra_data # <<>>
    /\ WrittenBody = InputBody

\* C5: a parsed block that holds a sub-block is written with the body it was
\* read from, whatever bytes its sub-block held.
C5_SubBlockBytesKept ==
    (Parsed /\ JustWritten
     /\ LastBlock.kind \in {"SceneTreeBlock", "SceneGroupItemBlock",
                            "SceneTextItemBlock", "SceneTombstoneItemBlock"})
        => WrittenBody = InputBody

\* C7: once Block.read has read a block's header it returns a block and
\* leaves the reader outside any block at start+length.
C7_BlockErrorsContained ==
    lastRead.info # None =>
        /\ lastRead.outcome = "block"
        /\ pos = LastBodyEnd
        /\ current_block = None

(***************************************************************************)
(* A client of TaggedBlockReader: it opens and leaves read_block and       *)
(* read_subblock scopes, normally or by an exception, and calls the        *)
(* reader's methods in any order on a short byte stream.                   *)
(***************************************************************************)

ReaderStreams ==
    { \* a block 1f0101 2101, then the header of a block of length 0x6c
      <<5, 0, 0, 0, 0, 1, 1, 0, 31, 1, 1, 33, 1, 108, 0, 0, 0, 0, 1, 1, 0>>,
      \* a block holding a sub-block @6 (byte @1, two more bytes) and a bad tag
      <<10, 0, 0, 0, 0, 1, 1, 1, 108, 4, 0, 0, 0, 17, 7, 10, 11, 42>>,
      \* int @1, float @2, double @6, id @1, bool @2
      <<20, 1, 0, 0, 0, 36, 0, 0, 0, 63, 104, 0, 0, 0, 0, 0, 0, 0, 64,
        31, 1, 5, 33, 1>>,
      \* byte @1, then a varuint that the end of the stream cuts short
      <<17, 7, 143>>,
      \* a block of declared length 1 holding an id of 3 bytes, then an
      \* empty block
      <<1, 0, 0, 0, 0, 1, 1, 0, 31, 1, 1, 0, 0, 0, 0, 0, 1, 1, 0>>,
      \* a header whose reserved byte is 1
      <<0, 0, 0, 0, 1, 1, 1, 0>>,
      \* a header with min_version above current_version, then two bytes
      <<0, 0, 0, 0, 0, 2, 1, 0, 1, 2>> }

\* how deep the client nests its with-scopes
MaxScopes == 3

Indices == {1, 2, 6}
Defaults == {None, Some(7)}
TypedReads ==
    {"read_id", "read_bool", "read_byte", "read_int", "read_float",
     "read_double"}

\* the tag type each typed read expects
ExpectedTag(op) ==
    CASE op = "read_id" -> TagID
      [] op \in {"read_bool", "read_byte"} -> TagByte1
      [] op \in {"read_int", "read_float"} -> TagByte4
      [] op = "read_double" -> TagByte8
      [] op \in {"read_subblock", "has_subblock"} -> TagLength4

\* getattr(reader, op)(index)
typed_read(op, d, p, index) ==
    CASE op = "read_id" -> read_id(d, p, index)
      [] op = "read_bool" -> read_bool(d, p, index)
      [] op = "read_byte" -> read_byte(d, p, index)
      [] op = "read_int" -> read_int(d, p, index)
      [] op = "read_float" -> read_float(d, p, index)
      [] op = "read_double" -> read_double(d, p, index)

\* getattr(reader, op + "_optional")(index, default)
typed_read_optional(op, d, p, index, default) ==
    CASE op = "read_id" -> read_id_optional(d, p, index, default)
      [] op = "read_bool" -> read_bool_optional(d, p, index, default)
      [] op = "read_byte" -> read_byte_optional(d, p, index, default)
      [] op = "read_int" -> read_int_optional(d, p, index, default)
      [] op = "read_float" -> read_float_optional(d, p, index, default)
      [] op = "read_double" -> read_double_optional(d, p, index, default)

Scope(kind, info) == [kind |-> kind, offset |-> info.offset, size |-> info.size]
Innermost == scopes[Len(scopes)]
Outer == SubSeq(scopes, 1, Len(scopes) - 1)
BlockScopeOpen == \E i \in DOMAIN scopes : scopes[i].kind = "block"

Call(op, index, tag_type, optional, default, r) ==
    [op |-> op, index |-> index, tag_type |-> tag_type,
     optional |-> optional, default |-> default, before |-> pos,
     in_block |-> BlockScopeOpen, err |-> r.err, val |-> r.val]

InitReader ==
    /\ data \in ReaderStreams
    /\ pos = 0
    /\ current_block = None
    /\ scopes = <<>>
    /\ last = NoCall
    /\ blocks = <<>>
    /\ out = <<>>
    /\ options = NoOptions
    /\ producer = <<>>
    /\ pc = "reader"
    /\ lastRead = NoRead
    /\ lastWrite = NoWrite
    /\ items = <<>>
    /\ order = NotIterated
    /\ NoEdit
    /\ NoArg

\* with reader.read_block() as info: the generator runs to its yield
ReadBlockEnter ==
    /\ pc = "reader"
    /\ Len(scopes) < MaxScopes
    /\ \E r \in {read_block_enter(data, pos, current_block)} :
           /\ pos' = r.pos
           /\ current_block' = IF r.err = "" /\ r.val # None
                                THEN r.val ELSE current_block
           /\ scopes' = IF r.err # "" THEN scopes
                         ELSE IF r.val = None
                         THEN Append(scopes, Scope("none", SubBlockInfo(pos, 0)))
                         ELSE Append(scopes, Scope("block", r.val[1]))
           /\ last' = Call("read_block", 0, 0, FALSE, None, r)
    /\ UNCHANGED <<data, streamVars, crdtVars, restVars>>

\* The body of a read_block scope ends normally: the generator resumes after
\* its yield.  After `yield None` it returns; otherwise _check_position runs
\* and, when it returns, current_block is cleared.
ReadBlockExit ==
    /\ pc = "reader"
    /\ scopes # <<>>
    /\ Innermost.kind \in {"block", "none"}
    /\ \E r \in {IF Innermost.kind = "none" THEN Ok(pos, <<>>)
                   ELSE check_position(data, pos, current_block[1])} :
           /\ pos' = r.pos
           /\ current_block' = IF Innermost.kind = "block" /\ r.err = ""
                                THEN None ELSE current_block
           /\ last' = Call("read_block_exit", 0, 0, FALSE, None, r)
    /\ scopes' = Outer
    /\ UNCHANGED <<data, streamVars, crdtVars, restVars>>

\* with reader.read_subblock(index) as info: the generator runs to its yield
ReadSubblockEnter ==
    /\ pc = "reader"
    /\ Len(scopes) < MaxScopes
    /\ \E index \in Indices :
       \E r \in {read_subblock_enter(data, pos, index)} :
           /\ pos' = r.pos
           /\ scopes' = IF r.err # "" THEN scopes
                         ELSE Append(scopes, Scope("subblock", r.val))
           /\ last' = Call("read_subblock", index, TagLength4, FALSE, None, r)
    /\ UNCHANGED <<data, current_block, streamVars, crdtVars, restVars>>

\* The body of a read_subblock scope ends normally: _check_position(subblock)
ReadSubblockExit ==
    /\ pc = "reader"
    /\ scopes # <<>>
    /\ Innermost.kind = "subblock"
    /\ \E r \in {check_position(data, pos,
                                  SubBlockInfo(Innermost.offset, Innermost.size))} :
           /\ pos' = r.pos
           /\ last' = Call("read_subblock_exit", 0, 0, FALSE, None, r)
    /\ scopes' = Outer
    /\ UNCHANGED <<data, current_block, streamVars, crdtVars, restVars>>

\* An exception leaves the innermost scope: contextlib throws it into the
\* generator at its yield, where nothing catches it; no statement after the
\* yield runs.
ScopeRaise ==
    /\ pc = "reader"
    /\ scopes # <<>>
    /\ scopes' = Outer
    /\ last' = Call(IF Innermost.kind = "subblock"
                    THEN "read_subblock_raise" ELSE "read_block_raise",
                    0, 0, FALSE, None, Ok(pos, <<>>))
    /\ UNCHANGED <<data, pos, current_block, streamVars, crdtVars, restVars>>

\* reader.data.read_tag(index, tag_type)
ReadTag ==
    /\ pc = "reader"
    /\ \E index \in Indices, tag_type \in TagType :
       \E r \in {read_tag(data, pos, index, tag_type)} :
           /\ pos' = r.pos
           /\ last' = Call("read_tag", index, tag_type, FALSE, None, r)
    /\ UNCHANGED <<data, current_block, scopes, streamVars, crdtVars, restVars>>

\* reader.data.check_tag(index, tag_type)
CheckTag ==
    /\ pc = "reader"
    /\ \E index \in Indices, tag_type \in TagType :
       \E r \in {check_tag(data, pos, index, tag_type)} :
           /\ pos' = r.pos
           /\ last' = Call("check_tag", index, tag_type, FALSE, None, r)
    /\ UNCHANGED <<data, current_block, scopes, streamVars, crdtVars, restVars>>

\* reader.read_id(index), read_bool(index), ...
TypedRead ==
    /\ pc = "reader"
    /\ \E op \in TypedReads, index \in Indices :
       \E r \in {typed_read(op, data, pos, index)} :
           /\ pos' = r.pos
           /\ last' = Call(op, index, ExpectedTag(op), FALSE, None, r)
    /\ UNCHANGED <<data, current_block, scopes, streamVars, crdtVars, restVars>>

\* reader.read_id_optional(index, default), read_bool_optional(...), ...
OptionalRead ==
    /\ pc = "reader"
    /\ \E op \in TypedReads, index \in Indices, default \in Defaults :
       \E r \in {typed_read_optional(op, data, pos, index, default)} :
           /\ pos' = r.pos
           /\ last' = Call(op, index, ExpectedTag(op), TRUE, default, r)
    /\ UNCHANGED <<data, current_block, scopes, streamVars, crdtVars, restVars>>

\* reader.has_subblock(index)
HasSubblock ==
    /\ pc = "reader"
    /\ \E index \in Indices :
       \E r \in {has_subblock(data, pos, current_block, index)} :
           /\ pos' = r.pos
           /\ last' = Call("has_subblock", index, TagLength4, FALSE, None, r)
    /\ UNCHANGED <<data, current_block, scopes, streamVars, crdtVars, restVars>>

NextReader ==
    \/ ReadBlockEnter
    \/ ReadBlockExit
    \/ ReadSubblockEnter
    \/ ReadSubblockExit
    \/ ScopeRaise
    \/ ReadTag
    \/ CheckTag
    \/ TypedRead
    \/ OptionalRead
    \/ HasSubblock

SpecReader == InitReader /\ [][NextReader]_vars

(***************************************************************************)
(* Properties of the reader                                                *)
(***************************************************************************)

\* C6: whenever the client is in no read_block scope, current_block is
\* cleared, and a read_block called outside any read_block scope does not
\* fail with "Already in a block".
C6_ScopeExitClearsBlock ==
    /\ ~BlockScopeOpen => current_block = None
    /\ (last.op = "read_block" /\ ~last.in_block)
            => last.err # "UnexpectedBlockError"

\* C8: has_subblock and check_tag return without raising and leave the
\* position where it was, and has_subblock returns False when the current
\* block has no bytes remaining.
C8_HasSubblockPure ==
    /\ last.op \in {"has_subblock", "check_tag"}
            => pos = last.before /\ last.err = ""
    /\ (/\ last.op = "has_subblock"
        /\ current_block # None
        /\ bytes_remaining_in_block(current_block[1], pos) <= 0)
            => last.val = FALSE

\* has_subblock has returned False at the end of the current block although
\* the bytes that follow decode as the tag it looks for
C8_Witness ==
    /\ last.op = "has_subblock"
    /\ current_block # None
    /\ bytes_remaining_in_block(current_block[1], pos) = 0
    /\ check_tag(data, pos, last.index, TagLength4).val
    /\ last.val = FALSE

\* the latest call was a read that begins with read_tag(index, tag_type)
TagRead == last.op \in {"read_tag", "read_subblock"} \cup TypedReads
\* what _read_tag_values finds where that call began
TagFound == read_tag_values(data, last.before)
\* the call came back as a missing tag should: UnexpectedBlockError, or the
\* default from an optional read, and the position is where the call began
Recovered ==
    /\ pos = last.before
    /\ IF last.optional
       THEN last.err = "" /\ last.val = last.default
       ELSE last.err = "UnexpectedBlockError"

\* C9 (as stated): whenever the expected tag is not what comes next.
C9_MissingTagRecoverable ==
    (TagRead /\ ~(TagFound.err = ""
                  /\ TagFound.val = <<last.index, last.tag_type>>))
        => Recovered

\* C9 (amended): when what comes next decodes as a tag whose index or type
\* is not the expected one, the read raises UnexpectedBlockError, or an
\* optional read returns its default, and the position is where it was
\* before the call.
C9_MismatchRecoverable ==
    (TagRead /\ TagFound.err = ""
     /\ TagFound.val # <<last.index, last.tag_type>>)
        => Recovered

\* an optional read met another tag and returned the caller's default
C9_Witness ==
    /\ TagRead
    /\ last.optional
    /\ last.default = Some(7)
    /\ TagFound.err = ""
    /\ TagFound.val # <<last.index, last.tag_type>>
    /\ TagFound.pos > pos
    /\ last.val = last.default

\* a read_block scope that yielded a block, or a read_subblock scope, is left
\* normally: the generator resumes after its yield
ScopeExits ==
    /\ scopes # <<>>
    /\ Innermost.kind \in {"block", "subblock"}
    /\ scopes' = Outer
    /\ last'.op \in {"read_block_exit", "read_subblock_exit"}
\* the end s + n of the scope that is left
ScopeEnd == Innermost.offset + Innermost.size
\* the exit consumed the rest of the scope and stored it as extra_data
RestKept ==
    /\ last'.err = ""
    /\ pos' = ScopeEnd
    /\ last'.val.offset = Innermost.offset
    /\ last'.val.size = Innermost.size
    /\ last'.val.extra_data = SubSeq(data, pos + 1, ScopeEnd)
\* the exit left the position alone and extra_data empty
NothingLeft ==
    /\ last'.err = ""
    /\ pos' = pos
    /\ last'.val.extra_data = <<>>

\* C25 (as stated): on normal exit from a read_block or read_subblock scope
\* at position p, the bytes up to the end of the scope are consumed and
\* stored as extra_data when p is before the end, nothing happens when p is
\* the end, and BlockOverflowError is raised when p is past the end.
C25_RestConsumedWhatever ==
    [][ScopeExits =>
        /\ pos < ScopeEnd => RestKept
        /\ pos = ScopeEnd => NothingLeft
        /\ pos > ScopeEnd => last'.err = "BlockOverflowError" /\ pos' = pos]_vars

\* C25 (amended): the same, when the stream holds the bytes up to the end of
\* the scope; when the stream ends before the end of the scope and p is
\* before it, the exit raises EOFError at the end of the stream.
C25_RestConsumedIfPresent ==
    [][ScopeExits =>
        /\ (pos < ScopeEnd /\ ScopeEnd <= Len(data)) => RestKept
        /\ (pos < ScopeEnd /\ ScopeEnd > Len(data))
                => last'.err = "EOFError" /\ pos' = Len(data)
        /\ pos = ScopeEnd => NothingLeft
        /\ pos > ScopeEnd => last'.err = "BlockOverflowError" /\ pos' = pos]_vars

\* a sub-block scope inside a block scope has been left before its end: the
\* position is the end of the sub-block and the skipped bytes are its
\* extra_data
C25_Witness ==
    /\ last.op = "read_subblock_exit"
    /\ last.err = ""
    /\ BlockScopeOpen
    /\ Len(last.val.extra_data) = 2
    /\ last.before + 2 = pos
    /\ pos = last.val.offset + last.val.size

\* a block scope whose declared length runs past the end of the stream has
\* been left: EOFError
C25_WitnessTruncated ==
    /\ last.op = "read_block_exit"
    /\ last.err = "EOFError"
    /\ current_block # None
    /\ pos = Len(data)
    /\ current_block[1].offset + current_block[1].size > Len(data)

\* a scope has been left past its end: BlockOverflowError
C25_WitnessOverflow ==
    /\ last.op \in {"read_block_exit", "read_subblock_exit"}
    /\ last.err = "BlockOverflowError"
    /\ pos = last.before

(***************************************************************************)
(* A client of TaggedBlockWriter: it opens and leaves write_block and      *)
(* write_subblock scopes, normally or by an exception, and writes tagged   *)
(* values in between.  A sink is named by a number: 0 is the stream the    *)
(* writer was made on (out), k > 0 the BytesIO of the k-th open scope.     *)
(***************************************************************************)

\* TaggedBlockWriter.__init__
TaggedBlockWriter_init == [data |-> 0, _in_block |-> FALSE]

\* the locals of a write_block or write_subblock generator at its yield
WriterScope(kind, previous_data, index, block_type, min_version, current_version) ==
    [kind |-> kind, previous_data |-> previous_data, buf |-> <<>>,
     index |-> index, block_type |-> block_type,
     min_version |-> min_version, current_version |-> current_version]

\* write_block up to its yield without the test of _in_block
write_block_enter_unchecked(w, fresh) ==
    [err |-> "", writer |-> [data |-> fresh, _in_block |-> TRUE]]

\* write_block up to its yield; fresh names the new BytesIO
write_block_enter(w, fresh) ==
    IF w._in_block THEN [err |-> "UnexpectedBlockError", writer |-> w]
    ELSE [err |-> "", writer |-> [data |-> fresh, _in_block |-> TRUE]]

\* write_subblock up to its yield
write_subblock_enter(w, fresh) ==
    [err |-> "", writer |-> [w EXCEPT !.data = fresh]]

\* a finally clause that restores nothing
scope_finally_kept(w, previous_data) == w

\* the finally clause of write_block and write_subblock:
\* self.data = previous_data
scope_finally(w, previous_data) == [w EXCEPT !.data = previous_data]

\* write_block between its finally clause and the writes of the header
write_block_leave(w) ==
    IF ~w._in_block THEN [err |-> "AssertionError", writer |-> w]
    ELSE [err |-> "", writer |-> [w EXCEPT !._in_block = FALSE]]

\* self.data.write_bytes(b) and the other writes of DataStream, on the sink
\* named k: the stream and the buffers of the open scopes sc afterwards.  A
\* BytesIO that no open scope holds is out of everybody's reach.
sink_write(k, b, o, sc) ==
    IF k = 0 THEN [out |-> o \o b, scopes |-> sc]
    ELSE IF k \in DOMAIN sc
    THEN [out |-> o, scopes |-> [sc EXCEPT ![k].buf = @ \o b]]
    ELSE [out |-> o, scopes |-> sc]

\* what the client writes: tests/test_tagged_block_writer.py
BlockHeaders ==
    {[block_type |-> 5, min_version |-> 1, current_version |-> 2],
     [block_type |-> 4, min_version |-> 1, current_version |-> 1]}
SubblockIndexes == {1, 2}
WriteCalls == {"write_bool", "write_int"}

\* writer.write_bool(7, True), writer.write_int(3, 0x1234)
typed_write(op) ==
    IF op = "write_bool" THEN write_bool(7, TRUE) ELSE write_int(3, 4660)

\* the bytes the client may write in all
MaxWritten == 24

\* the bytes in the buffers of the scopes sc, and the bytes their tags,
\* lengths and headers take when they exit
RECURSIVE Footprint(_)
Footprint(sc) ==
    IF sc = <<>> THEN 0
    ELSE Len(Head(sc).buf) + (IF Head(sc).kind = "block" THEN 8 ELSE 5)
         + Footprint(Tail(sc))
Room(n) == Len(out) + Footprint(scopes) + n <= MaxWritten

WriterCall(op, err, b) ==
    [op |-> op, err |-> err, bytes |-> b, in_block |-> BlockScopeOpen,
     depth |-> Len(scopes), sink |-> writer.data]

NoWriterCall ==
    [op |-> "", err |-> "", bytes |-> <<>>, in_block |-> FALSE, depth |-> 0,
     sink |-> 0]

InitWriter ==
    /\ data = <<>>
    /\ pos = 0
    /\ current_block = None
    /\ scopes = <<>>
    /\ last = NoWriterCall
    /\ blocks = <<>>
    /\ out = <<>>
    /\ options = NoOptions
    /\ producer = <<>>
    /\ pc = "writer"
    /\ lastRead = NoRead
    /\ lastWrite = NoWrite
    /\ items = <<>>
    /\ order = NotIterated
    /\ NoEdit
    /\ arg = <<>>
    /\ ret = <<>>
    /\ tree = <<>>
    /\ given = <<>>
    /\ writer = TaggedBlockWriter_init

\* with writer.write_block(block_type, min_version, current_version): the
\* generator runs to its yield
WriteBlockEnter ==
    /\ pc = "writer"
    /\ Len(scopes) < MaxScopes
    /\ Room(8)
    /\ \E h \in BlockHeaders :
       \E r \in {write_block_enter(writer, Len(scopes) + 1)} :
           /\ writer' = r.writer
           /\ scopes' = IF r.err # "" THEN scopes
                         ELSE Append(scopes,
                                     WriterScope("block", writer.data, 0,
                                                 h.block_type, h.min_version,
                                                 h.current_version))
           /\ last' = WriterCall("write_block", r.err, <<>>)
    /\ UNCHANGED <<data, pos, current_block, streamVars, crdtVars, editVars,
                   callVars, treeVars>>

\* The body of a write_block scope ends normally: the generator resumes
\* after its yield, restores the sink, clears _in_block and writes the
\* length, the header and the buffer to the restored sink.
WriteBlockExit ==
    /\ pc = "writer"
    /\ scopes # <<>>
    /\ Innermost.kind = "block"
    /\ \E w \in {scope_finally(writer, Innermost.previous_data)} :
       \E r \in {write_block_leave(w)} :
       \E b \in {IF r.err # "" THEN <<>>
                 ELSE write_block(Innermost.block_type, Innermost.min_version,
                                  Innermost.current_version, Innermost.buf)} :
       \E s \in {sink_write(r.writer.data, b, out, Outer)} :
           /\ writer' = r.writer
           /\ scopes' = s.scopes
           /\ out' = s.out
           /\ last' = WriterCall("write_block_exit", r.err, b)
    /\ UNCHANGED <<data, pos, current_block, blocks, options, producer, pc,
                   lastRead, lastWrite, crdtVars, editVars, callVars, treeVars>>

\* with writer.write_subblock(index): the generator runs to its yield
WriteSubblockEnter ==
    /\ pc = "writer"
    /\ Len(scopes) < MaxScopes
    /\ Room(5)
    /\ \E index \in SubblockIndexes :
       \E r \in {write_subblock_enter(writer, Len(scopes) + 1)} :
           /\ writer' = r.writer
           /\ scopes' = Append(scopes,
                               WriterScope("subblock", writer.data, index,
                                           0, 0, 0))
           /\ last' = WriterCall("write_subblock", r.err, <<>>)
    /\ UNCHANGED <<data, pos, current_block, streamVars, crdtVars, editVars,
                   callVars, treeVars>>

\* The body of a write_subblock scope ends normally: the sink is restored
\* and the tag, the length and the buffer are written to it.
WriteSubblockExit ==
    /\ pc = "writer"
    /\ scopes # <<>>
    /\ Innermost.kind = "subblock"
    /\ \E w \in {scope_finally(writer, Innermost.previous_data)} :
       \E b \in {write_subblock(Innermost.index, Innermost.buf)} :
       \E s \in {sink_write(w.data, b, out, Outer)} :
           /\ writer' = w
           /\ scopes' = s.scopes
           /\ out' = s.out
           /\ last' = WriterCall("write_subblock_exit", "", b)
    /\ UNCHANGED <<data, pos, current_block, blocks, options, producer, pc,
                   lastRead, lastWrite, crdtVars, editVars, callVars, treeVars>>

\* An exception leaves the innermost scope: contextlib throws it into the
\* generator at its yield; the finally clause runs and the exception goes
\* on, so that no statement after the finally clause runs.
WriterScopeRaise ==
    /\ pc = "writer"
    /\ scopes # <<>>
    /\ writer' = scope_finally(writer, Innermost.previous_data)
    /\ scopes' = Outer
    /\ last' = WriterCall(IF Innermost.kind = "subblock"
                          THEN "write_subblock_raise" ELSE "write_block_raise",
                          "", <<>>)
    /\ UNCHANGED <<data, pos, current_block, streamVars, crdtVars, editVars,
                   callVars, treeVars>>

\* writer.write_bool(index, value), writer.write_int(index, value)
TypedWrite ==
    /\ pc = "writer"
    /\ \E op \in WriteCalls :
       \E b \in {typed_write(op)} :
       \E s \in {sink_write(writer.data, b, out, scopes)} :
           /\ Room(Len(b))
           /\ scopes' = s.scopes
           /\ out' = s.out
           /\ last' = WriterCall(op, "", b)
    /\ UNCHANGED <<data, pos, current_block, blocks, options, producer, pc,
                   lastRead, lastWrite, crdtVars, editVars, callVars, treeVars,
                   writer>>

NextWriter ==
    \/ WriteBlockEnter
    \/ WriteBlockExit
    \/ WriteSubblockEnter
    \/ WriteSubblockExit
    \/ WriterScopeRaise
    \/ TypedWrite

SpecWriter == InitWriter /\ [][NextWriter]_vars

\* a client of the reader or a client of the writer
InitScopes == InitReader \/ InitWriter
NextScopes == NextReader \/ NextWriter
SpecScopes == InitScopes /\ [][NextScopes]_vars

(***************************************************************************)
(* Properties of the writer                                                *)
(***************************************************************************)

\* the bytes in the sink named k
SinkContent(k, o, sc) == IF k = 0 THEN o ELSE sc[k].buf
\* the sinks below the one named k hold what they held
SinksBelowKept(k) ==
    /\ k > 0 => out' = out
    /\ \A j \in 1..(k - 1) : scopes'[j] = scopes[j]
\* n as four bytes, least significant first
LittleEndian32(n) ==
    <<n % 256, (n \div 256) % 256, (n \div 65536) % 256, n \div 16777216>>

\* the innermost write scope is left through an exception
WriterScopeRaises ==
    /\ pc = "writer"
    /\ scopes # <<>>
    /\ last'.op \in {"write_block_raise", "write_subblock_raise"}
\* a tagged value is written
TypedWrites == pc = "writer" /\ last'.op \in WriteCalls

\* C23: when an exception leaves a write_block or write_subblock scope, the
\* writer's sink is again the one in use before the scope, no sink has got
\* a byte (no tag, length, header or body), and what is written afterwards
\* is appended to the sink in use, which is the original stream once no
\* scope is open.
C23_AbortedScopeLeavesNoTrace ==
    [][/\ WriterScopeRaises =>
            /\ writer'.data = Len(scopes) - 1
            /\ out' = out
            /\ scopes' = Outer
       /\ TypedWrites =>
            /\ writer.data = Len(scopes)
            /\ SinkContent(Len(scopes), out', scopes')
                    = SinkContent(Len(scopes), out, scopes)
                        \o typed_write(last'.op)
            /\ SinksBelowKept(Len(scopes))
            /\ Len(scopes') = Len(scopes)]_vars

\* tests/test_tagged_block_writer.py, test_write_block_error_recovery: after
\* write_int in a write_block scope that an exception left, write_bool(7,
\* True) has put 7101 in the original stream
C23_Witness ==
    /\ pc = "writer"
    /\ scopes = <<>>
    /\ writer._in_block
    /\ last.op = "write_bool"
    /\ last.sink = 0
    /\ out = <<113, 1>>

\* the same after a write_subblock scope nested in a write_subblock scope
\* was left through an exception: the write lands in the outer buffer
C23_WitnessNested ==
    /\ pc = "writer"
    /\ Len(scopes) = 1
    /\ ~writer._in_block
    /\ last.op = "write_bool"
    /\ last.sink = 1
    /\ scopes[1].buf = <<113, 1>>
    /\ out = <<>>

\* a write scope is left normally
WriterScopeExits ==
    /\ pc = "writer"
    /\ scopes # <<>>
    /\ last'.op \in {"write_block_exit", "write_subblock_exit"}
    /\ last'.err = ""
\* a write scope is entered
WriterScopeEnters ==
    /\ pc = "writer"
    /\ last'.op \in {"write_block", "write_subblock"}
    /\ last'.err = ""
\* the tag and length of a sub-block, the length and header of a block,
\* before a body of n bytes
Framing(scope, n) ==
    IF scope.kind = "subblock"
    THEN <<scope.index * 16 + 12>> \o LittleEndian32(n)
    ELSE LittleEndian32(n)
         \o <<0, scope.min_version, scope.current_version, scope.block_type>>

\* C27: a write_block or write_subblock scope that exits normally appends
\* to its parent sink the tag (sub-block) or 8-byte header (block) with the
\* number of bytes written inside the scope as length, then those bytes;
\* what is written inside an open scope, nested scopes included, goes to
\* the scope's buffer and changes no sink below it; entering a scope
\* changes no sink.
C27_ScopesFrameTheirBody ==
    [][/\ WriterScopeExits =>
            /\ Len(scopes') = Len(scopes) - 1
            /\ writer'.data = Len(scopes) - 1
            /\ SinkContent(Len(scopes) - 1, out', scopes')
                    = SinkContent(Len(scopes) - 1, out, scopes)
                        \o Framing(Innermost, Len(Innermost.buf))
                        \o Innermost.buf
            /\ SinksBelowKept(Len(scopes) - 1)
       /\ WriterScopeEnters =>
            /\ Len(scopes') = Len(scopes) + 1
            /\ writer'.data = Len(scopes')
            /\ scopes'[Len(scopes')].buf = <<>>
            /\ SinksBelowKept(Len(scopes'))
       /\ TypedWrites =>
            /\ writer.data = Len(scopes)
            /\ SinkContent(Len(scopes), out', scopes')
                    = SinkContent(Len(scopes), out, scopes)
                        \o typed_write(last'.op)
            /\ SinksBelowKept(Len(scopes))]_vars

\* tests/test_tagged_block_writer.py, test_write_subblock_nested:
\* 1c0a000000 2c05000000 3434120000
C27_Witness ==
    /\ pc = "writer"
    /\ scopes = <<>>
    /\ last.op = "write_subblock_exit"
    /\ out = <<28, 10, 0, 0, 0, 44, 5, 0, 0, 0, 52, 52, 18, 0, 0>>

\* test_write_block: 05000000 00010205 3434120000
C27_WitnessBlock ==
    /\ pc = "writer"
    /\ scopes = <<>>
    /\ last.op = "write_block_exit"
    /\ out = <<5, 0, 0, 0, 0, 1, 2, 5, 52, 52, 18, 0, 0>>

\* inside a block, a sub-block and a sub-block of it, nothing has reached
\* the stream or the outer buffers yet
C27_WitnessPending ==
    /\ pc = "writer"
    /\ Len(scopes) = 3
    /\ scopes[1].kind = "block"
    /\ out = <<>>
    /\ scopes[1].buf = <<>>
    /\ scopes[2].buf = <<>>
    /\ scopes[3].buf = <<52, 52, 18, 0, 0>>

\* the block scopes that are open
OpenBlockScopes == {i \in DOMAIN scopes : scopes[i].kind = "block"}

\* C24: at most one block scope is open at a time: read_block called inside
\* a read_block scope and write_block called inside a write_block scope
\* raise UnexpectedBlockError, the position, the output and the open scopes
\* being what they were.
C24_OneBlockAtATime ==
    [][/\ Cardinality(OpenBlockScopes) <= 1
       /\ (pc = "reader" /\ last'.op = "read_block" /\ BlockScopeOpen) =>
            /\ last'.err = "UnexpectedBlockError"
            /\ pos' = pos
            /\ current_block' = current_block
            /\ scopes' = scopes
       /\ (pc = "writer" /\ last'.op = "write_block" /\ BlockScopeOpen) =>
            /\ last'.err = "UnexpectedBlockError"
            /\ out' = out
            /\ scopes' = scopes
            /\ writer' = writer]_vars

\* tests/test_tagged_block_writer.py, test_write_block_error_if_nested:
\* write_block in a sub-block of a block has raised, with nothing written
C24_Witness ==
    /\ pc = "writer"
    /\ last.op = "write_block"
    /\ last.err = "UnexpectedBlockError"
    /\ last.in_block
    /\ Len(scopes) = 2
    /\ scopes[1].kind = "block"
    /\ scopes[2].buf = <<113, 1>>
    /\ out = <<>>

\* tests/test_tagged_block_reader.py, test_error_if_already_in_block:
\* read_block inside a read_block scope has raised where the body began
C24_WitnessReader ==
    /\ pc = "reader"
    /\ last.op = "read_block"
    /\ last.err = "UnexpectedBlockError"
    /\ last.in_block
    /\ current_block # None
    /\ pos = current_block[1].offset
    /\ pos = last.before

\* C29: whenever the client is in no write_block scope, the writer is not
\* marked as being inside a block, and a write_block called outside any
\* write_block scope does not fail with "Already in a block".
C29_RaiseClearsInBlock ==
    pc = "writer" =>
        /\ ~BlockScopeOpen => ~writer._in_block
        /\ (last.op = "write_block" /\ ~last.in_block)
                => last.err # "UnexpectedBlockError"

\* a write_block scope was left through an exception, and the next
\* write_block, outside any scope, has raised UnexpectedBlockError with
\* nothing written to the stream
C29_Witness ==
    /\ pc = "writer"
    /\ scopes = <<>>
    /\ last.op = "write_block"
    /\ ~last.in_block
    /\ last.depth = 0
    /\ last.err = "UnexpectedBlockError"
    /\ writer._in_block
    /\ out = <<>>

(***************************************************************************)
(* crdt_sequence.py: CrdtSequence and toposort_items.  A dict is a         *)
(* function on its key set; the keys of toposort_items' data are item ids  *)
(* and the strings "__start" and "__end", modelled as records              *)
(* [tag, id] with tag "id", "__start" or "__end".                          *)
(***************************************************************************)

END_MARKER == CrdtId(0, 0)

StartKey == [tag |-> "__start", id |-> END_MARKER]
EndKey == [tag |-> "__end", id |-> END_MARKER]
IdKey(id) == [tag |-> "id", id |-> id]

\* {item.item_id: item for item in items}: a later item replaces an earlier
\* one with the same id
item_dict(seq) ==
    [k \in {seq[i].item_id : i \in DOMAIN seq} |->
        seq[CHOOSE i \in DOMAIN seq :
                /\ seq[i].item_id = k
                /\ \A j \in DOMAIN seq : j > i => seq[j].item_id # k]]

\* dict.values(): the values in the order their keys were first inserted
dict_values(seq) ==
    LET dict == item_dict(seq)
        first == SelectSeq([i \in DOMAIN seq |-> i],
                           LAMBDA i : \A j \in 1..(i - 1) :
                                         seq[j].item_id # seq[i].item_id)
    IN  [n \in DOMAIN first |-> dict[seq[first[n]].item_id]]

\* _side_id that takes an id no item has for the marker of the other end
side_id_unknown_swapped(dict, item, side) ==
    LET id == IF side = "left" THEN item.left_id ELSE item.right_id
    IN  IF id = END_MARKER
        THEN IF side = "left" THEN StartKey ELSE EndKey
        ELSE IF id \notin DOMAIN dict
        THEN IF side = "left" THEN EndKey ELSE StartKey
        ELSE IdKey(id)

\* _side_id
side_id(dict, item, side) ==
    LET id == IF side = "left" THEN item.left_id ELSE item.right_id
    IN  IF id = END_MARKER \/ id \notin DOMAIN dict
        THEN IF side = "left" THEN StartKey ELSE EndKey
        ELSE IdKey(id)

\* sorted(ids): ascending in CrdtId order
RECURSIVE sorted(_)
sorted(ids) ==
    IF ids = {} THEN <<>>
    ELSE LET least == CHOOSE x \in ids :
                          \A y \in ids : y = x \/ CrdtIdLess(x, y)
         IN  <<least>> \o sorted(ids \ {least})

\* data built without `data[item.item_id].add(left_id)`
toposort_data_right_only(dict) ==
    LET comes_after(k) ==
            {IdKey(id) : id \in {i \in DOMAIN dict :
                                     side_id(dict, dict[i], "right") = k}}
        keys == {IdKey(id) : id \in DOMAIN dict}
                \cup {side_id(dict, dict[id], "right") : id \in DOMAIN dict}
    IN  [k \in keys |-> comes_after(k)]

\* data after the two loops that build it: key "comes after" values
toposort_data(dict) ==
    LET comes_after(k) ==
            (IF k.tag = "id" THEN {side_id(dict, dict[k.id], "left")} ELSE {})
            \cup {IdKey(id) : id \in {i \in DOMAIN dict :
                                          side_id(dict, dict[i], "right") = k}}
        keys == {IdKey(id) : id \in DOMAIN dict}
                \cup {side_id(dict, dict[id], "right") : id \in DOMAIN dict}
        sources == UNION {comes_after(k) : k \in keys}
    IN  [k \in keys \cup sources |->
            IF k \in keys THEN comes_after(k) ELSE {}]

\* a while loop that takes the ready items one at a time, the least first
RECURSIVE toposort_loop_one_by_one(_, _)
toposort_loop_one_by_one(dat, ids) ==
    LET ready == {k \in DOMAIN dat : dat[k] = {}}
        ready_ids == {k.id : k \in {n \in ready : n.tag = "id"}}
        next_items == IF StartKey \in ready THEN {StartKey}
                      ELSE IF ready_ids # {}
                      THEN {IdKey(sorted(ready_ids)[1])}
                      ELSE ready
    IN  IF next_items = {EndKey}
        THEN [ids |-> ids,
              err |-> IF DOMAIN dat # {EndKey} THEN "ValueError" ELSE ""]
        ELSE IF next_items = {}
        THEN [ids |-> ids, err |-> "AssertionError"]
        ELSE toposort_loop_one_by_one(
                 [k \in DOMAIN dat \ next_items |-> dat[k] \ next_items],
                 ids \o sorted({k.id : k \in {n \in next_items : n.tag = "id"}}))

\* the while loop of toposort_items and the test after it; ids are the ids
\* yielded so far
RECURSIVE toposort_loop(_, _)
toposort_loop(dat, ids) ==
    LET next_items == {k \in DOMAIN dat : dat[k] = {}}
    IN  IF next_items = {EndKey}
        THEN [ids |-> ids,
              err |-> IF DOMAIN dat # {EndKey} THEN "ValueError" ELSE ""]
        ELSE IF next_items = {}
        THEN [ids |-> ids, err |-> "AssertionError"]
        ELSE toposort_loop(
                 [k \in DOMAIN dat \ next_items |-> dat[k] \ next_items],
                 ids \o sorted({k.id : k \in {n \in next_items : n.tag = "id"}}))

\* toposort_items that yields the ids as they come in its input
toposort_items_input_order(seq) ==
    [ids |-> [i \in DOMAIN seq |-> seq[i].item_id], err |-> ""]

\* toposort_items that leaves out the items whose value is empty
toposort_items_live(seq) ==
    LET live == SelectSeq(seq, LAMBDA item : item.value # <<>>)
    IN  IF live = <<>> THEN [ids |-> <<>>, err |-> ""]
        ELSE toposort_loop(toposort_data(item_dict(live)), <<>>)

\* toposort_items: the ids it yields and the exception that ends it, if any
toposort_items(seq) ==
    IF seq = <<>> THEN [ids |-> <<>>, err |-> ""]
    ELSE toposort_loop(toposort_data(item_dict(seq)), <<>>)

\* list(CrdtSequence(items)): __init__ then __iter__
CrdtSequence_iter(seq) == toposort_items(dict_values(seq))

\* CrdtSequence(items).add(item): the items the sequence holds afterwards, in
\* the order of its dict
CrdtSequence_add(seq, item) ==
    IF item.item_id \in DOMAIN item_dict(seq)
    THEN [err |-> "ValueError", items |-> dict_values(seq)]
    ELSE [err |-> "", items |-> Append(dict_values(seq), item)]

\* values() in the order of the dict instead of the order of iteration
CrdtSequence_values_unsorted(seq) ==
    [err |-> CrdtSequence_iter(seq).err,
     values |-> [i \in DOMAIN dict_values(seq) |-> dict_values(seq)[i].value]]

\* CrdtSequence(items).values(): [self[item_id] for item_id in self]
CrdtSequence_values(seq) ==
    Bind(CrdtSequence_iter(seq), LAMBDA r :
        [err |-> r.err,
         values |-> [i \in DOMAIN r.ids |-> item_dict(seq)[r.ids[i]].value]])

(***************************************************************************)
(* A caller holds a list of items with distinct ids, may put it in another *)
(* order at any time, iterates the CrdtSequence built from it, may then    *)
(* add one item to the sequence and iterate it again.                      *)
(***************************************************************************)

ItemIds == {CrdtId(1, 1), CrdtId(1, 2), CrdtId(1, 3)}
\* what left_id and right_id point at: the end marker, an item, or an id
\* that no item has
SideIds == {END_MARKER, CrdtId(1, 9)} \cup ItemIds

\* the ids of the items that are tombstones: empty value, deleted_length 1
Tombstones == {CrdtId(1, 2)}

\* an item as the caller makes it: a one-character string, or a tombstone
MakeItem(id, left, right) ==
    IF id \in Tombstones
    THEN CrdtSequenceItem(id, left, right, 1, <<>>)
    ELSE CrdtSequenceItem(id, left, right, 0, <<"x">>)

\* the items with the given ids and neighbours, in ascending order of id
ItemList(ids, left, right) ==
    LET ord == sorted(ids)
    IN  [i \in DOMAIN ord |-> MakeItem(ord[i], left[ord[i]], right[ord[i]])]

\* the ids an added item may have: those of ItemIds and one more
AddIds == ItemIds \cup {CrdtId(1, 4)}

\* the ids of the items in a list
IdsOf(seq) == {seq[i].item_id : i \in DOMAIN seq}

\* what the neighbours of an added item may be: the end marker or an item of
\* the sequence (the end marker alone when add is going to refuse the id)
AddSides(seq, id) ==
    IF id \in IdsOf(seq) THEN {END_MARKER} ELSE {END_MARKER} \cup IdsOf(seq)

\* the list is in ascending order of id, as InitCrdt made it
InIdOrder(seq) ==
    \A i, j \in DOMAIN seq :
        i < j => CrdtIdLess(seq[i].item_id, seq[j].item_id)

\* the same list in every order
Reorderings(seq) ==
    {[i \in DOMAIN seq |-> seq[f[i]]] :
        f \in {g \in [DOMAIN seq -> DOMAIN seq] :
                  \A a, b \in DOMAIN seq : a # b => g[a] # g[b]}}

InitCrdt ==
    /\ \E ids \in SUBSET ItemIds :
       \E left \in [ids -> SideIds], right \in [ids -> SideIds] :
           items = ItemList(ids, left, right)
    /\ order = NotIterated
    /\ NoEdit
    /\ NoArg
    /\ data = <<>>
    /\ pos = 0
    /\ current_block = None
    /\ scopes = <<>>
    /\ last = NoCall
    /\ blocks = <<>>
    /\ out = <<>>
    /\ options = NoOptions
    /\ producer = <<>>
    /\ pc = "crdt"
    /\ lastRead = NoRead
    /\ lastWrite = NoWrite

\* list(CrdtSequence(items))
Iterate ==
    /\ ~order.ran
    /\ \E r \in {CrdtSequence_iter(items)} :
           order' = [order EXCEPT !.ran = TRUE, !.reordered = FALSE,
                                  !.ids = r.ids, !.err = r.err]
    /\ UNCHANGED <<items, data, pos, current_block, apiVars, streamVars, restVars>>

\* the caller turns to the same items in another order
Reorder ==
    /\ order.added = None
    /\ items' \in Reorderings(items) \ {items}
    /\ order' = [order EXCEPT !.reordered = order.ran]
    /\ UNCHANGED <<data, pos, current_block, apiVars, streamVars, restVars>>

\* seq.add(item) on the sequence that has been iterated
Add ==
    /\ order.ran
    /\ order.added = None
    /\ InIdOrder(items)
    /\ \E id \in AddIds :
       \E left \in AddSides(items, id), right \in AddSides(items, id) :
       \E r \in {CrdtSequence_add(items, MakeItem(id, left, right))} :
           /\ items' = r.items
           /\ order' = [ran |-> FALSE, reordered |-> FALSE, ids |-> <<>>,
                        err |-> "", added |-> Some(MakeItem(id, left, right)),
                        add_err |-> r.err, prev_ids |-> order.ids,
                        prev_err |-> order.err]
    /\ UNCHANGED <<data, pos, current_block, apiVars, streamVars, restVars>>

NextCrdt ==
    \/ Iterate
    \/ Reorder
    \/ Add

SpecCrdt == InitCrdt /\ [][NextCrdt]_vars

(***************************************************************************)
(* The order of toposort_items on items whose ids differ in part1, in      *)
(* part2, or are those of tests/test_crdt_sequence.py.                     *)
(***************************************************************************)

\* cid
cid(k) == CrdtId(IF k = 0 THEN 0 ELSE 1, k)

\* the ids the items are drawn from: test_overlapping,
\* test_overlapping_sorted_by_id, and ids of two authors
LayerIdPools ==
    {ItemIds,
     {CrdtId(1, 3), CrdtId(1, 8), CrdtId(1, 9)},
     {CrdtId(1, 2), CrdtId(1, 3), CrdtId(2, 1)}}
\* an id that no item has
UnknownId == CrdtId(1, 7)

InitLayers ==
    /\ \E pool \in LayerIdPools :
       \E ids \in SUBSET pool :
       \E left \in [ids -> {END_MARKER, UnknownId} \cup ids],
          right \in [ids -> {END_MARKER, UnknownId} \cup ids] :
           items = ItemList(ids, left, right)
    /\ order = NotIterated
    /\ NoEdit
    /\ NoArg
    /\ data = <<>>
    /\ pos = 0
    /\ current_block = None
    /\ scopes = <<>>
    /\ last = NoCall
    /\ blocks = <<>>
    /\ out = <<>>
    /\ options = NoOptions
    /\ producer = <<>>
    /\ pc = "layers"
    /\ lastRead = NoRead
    /\ lastWrite = NoWrite

NextLayers == Iterate

SpecLayers == InitLayers /\ [][NextLayers]_vars

\* the item with the given id among `items`
ItemOf(id) == items[CHOOSE i \in DOMAIN items : items[i].item_id = id]
\* the items that have to come before the item with the given id: its left
\* neighbour, when that is an item, and the items that name it as their
\* right neighbour
ComesBefore(id) ==
    ({ItemOf(id).left_id} \cap IdsOf(items))
    \cup {y \in IdsOf(items) : ItemOf(y).right_id = id}
\* the greatest of a set of numbers that is not empty
Greatest(S) == CHOOSE n \in S : \A m \in S : m <= n
\* the round in which the item becomes ready: one more than the latest
\* round of the items that have to come before it
RECURSIVE ReadyRound(_)
ReadyRound(id) ==
    IF ComesBefore(id) = {} THEN 1
    ELSE 1 + Greatest({ReadyRound(y) : y \in ComesBefore(id)})
\* ascending CrdtId order: part1, then part2
Ascending(x, y) ==
    x.part1 < y.part1 \/ (x.part1 = y.part1 /\ x.part2 < y.part2)

\* C26: an item is yielded only after the items that have to come before
\* it; of two yielded items the one that became ready in an earlier round
\* comes first, and of two that became ready in the same round the one
\* with the lower CrdtId (part1, then part2) comes first.
C26_KahnLayers ==
    order.ran =>
        /\ \A j \in DOMAIN order.ids :
               \A y \in ComesBefore(order.ids[j]) :
                   \E i \in 1..(j - 1) : order.ids[i] = y
        /\ \A i, j \in DOMAIN order.ids :
               i < j =>
                   \/ ReadyRound(order.ids[i]) < ReadyRound(order.ids[j])
                   \/ /\ ReadyRound(order.ids[i]) = ReadyRound(order.ids[j])
                      /\ Ascending(order.ids[i], order.ids[j])

\* tests/test_crdt_sequence.py, test_overlapping: [(1, end, end),
\* (2, 1, end), (3, end, end)] has given 1, 3, 2
C26_Witness ==
    /\ order.ran
    /\ order.err = ""
    /\ items = <<MakeItem(cid(1), END_MARKER, END_MARKER),
                 MakeItem(cid(2), cid(1), END_MARKER),
                 MakeItem(cid(3), END_MARKER, END_MARKER)>>
    /\ order.ids = <<cid(1), cid(3), cid(2)>>

\* test_overlapping_sorted_by_id: [(8, end, end), (9, 8, end),
\* (3, end, end)] has given 3, 8, 9
C26_WitnessSortedById ==
    /\ order.ran
    /\ order.err = ""
    /\ IdsOf(items) = {cid(3), cid(8), cid(9)}
    /\ ItemOf(cid(8)).left_id = END_MARKER
    /\ ItemOf(cid(9)).left_id = cid(8)
    /\ ItemOf(cid(3)).left_id = END_MARKER
    /\ \A id \in IdsOf(items) : ItemOf(id).right_id = END_MARKER
    /\ order.ids = <<cid(3), cid(8), cid(9)>>

\* two items of the same round whose order part1 decides against part2,
\* and an item of a later round with the lowest id
C26_WitnessTwoAuthors ==
    /\ order.ran
    /\ order.err = ""
    /\ order.ids = <<CrdtId(1, 3), CrdtId(2, 1), CrdtId(1, 2)>>
    /\ ReadyRound(CrdtId(1, 3)) = ReadyRound(CrdtId(2, 1))
    /\ ReadyRound(CrdtId(1, 2)) > ReadyRound(CrdtId(2, 1))

\* C10: iterating a CrdtSequence built from the items in the order they are
\* in now gives what iterating the one built from them in the order they
\* were in before gave.
C10_OrderIndependent ==
    order.ran =>
        CrdtSequence_iter(items) = [ids |-> order.ids, err |-> order.err]

\* three items, two of them tied after the first, were iterated without
\* error and are now held in another order
C10_Witness ==
    /\ order.ran
    /\ order.reordered
    /\ order.err = ""
    /\ Len(order.ids) = 3
    /\ \E i, j \in DOMAIN items :
           i # j /\ items[i].left_id = items[j].left_id

(***************************************************************************)
(* Properties of the order                                                 *)
(***************************************************************************)

\* x comes before y in the list
Before(seq, x, y) ==
    \E i, j \in DOMAIN seq : i < j /\ seq[i] = x /\ seq[j] = y

\* the item that was added
Added == order.added[1]

\* an item was added whose left_id L and right_id R are items that the
\* sequence yielded in that order, L before R, when it was iterated before
InsertedBetween ==
    /\ order.ran
    /\ order.added # None
    /\ order.add_err = ""
    /\ order.prev_err = ""
    /\ Before(order.prev_ids, Added.left_id, Added.right_id)

\* the sequence now yields the added item after its left_id and before its
\* right_id
PlacedBetween ==
    /\ order.err = ""
    /\ Before(order.ids, Added.left_id, Added.item_id)
    /\ Before(order.ids, Added.item_id, Added.right_id)

\* no other item of the sequence has the added item's id as left_id or
\* right_id
NotReferredTo ==
    \A i \in DOMAIN items :
        items[i].item_id # Added.item_id
            => /\ items[i].left_id # Added.item_id
               /\ items[i].right_id # Added.item_id

\* C11 (as stated): an item added with left_id L and right_id R, two items
\* the sequence yields in that order, is yielded after L and before R,
\* whatever other items the sequence holds.
C11_InsertedBetweenWhatever == InsertedBetween => PlacedBetween

\* C11 (amended): the same, when no item of the sequence refers to the id of
\* the added item.
C11_InsertedBetween == (InsertedBetween /\ NotReferredTo) => PlacedBetween

\* an item was added between two items that had a third one between them,
\* and its id is not the greatest
C11_Witness ==
    /\ InsertedBetween
    /\ NotReferredTo
    /\ Len(order.prev_ids) = 3
    /\ order.prev_ids[1] = Added.left_id
    /\ order.prev_ids[3] = Added.right_id
    /\ order.err = ""
    /\ Len(order.ids) = 4

\* the links between the items of a sequence: <<a, b>> when b's left_id is a
\* or a's right_id is b, a and b being ids of items of the sequence
Links(seq) ==
    LET dict == item_dict(seq)
        known(id) == id # END_MARKER /\ id \in DOMAIN dict
    IN  {<<dict[k].left_id, k>> : k \in {i \in DOMAIN dict : known(dict[i].left_id)}}
        \cup {<<k, dict[k].right_id>> : k \in {i \in DOMAIN dict : known(dict[i].right_id)}}

\* the ids reached from the ids of `from` by following at most n links
RECURSIVE Reach(_, _, _)
Reach(links, from, n) ==
    IF n = 0 THEN {}
    ELSE LET step == {l[2] : l \in {k \in links : k[1] \in from}}
         IN  step \cup Reach(links, step, n - 1)

\* the links contain a cycle
HasCycle(seq) ==
    \E id \in IdsOf(seq) : id \in Reach(Links(seq), {id}, Cardinality(IdsOf(seq)))

\* C13: iterating a sequence whose links contain a cycle raises ValueError.
C13_CycleRaisesValueError ==
    (order.ran /\ HasCycle(items)) => order.err = "ValueError"

\* C13, as far as it holds: iterating a sequence whose links contain a cycle
\* raises, ValueError or the AssertionError of `assert next_items`.
C13_CycleRaises ==
    (order.ran /\ HasCycle(items))
        => order.err \in {"ValueError", "AssertionError"}

\* the items with every left_id and right_id that no item has replaced by
\* the end marker
Undangled(seq) ==
    LET mend(id) == IF id \in IdsOf(seq) THEN id ELSE END_MARKER
    IN  [i \in DOMAIN seq |->
            [seq[i] EXCEPT !.left_id = mend(seq[i].left_id),
                           !.right_id = mend(seq[i].right_id)]]

\* C14: iterating a sequence gives what iterating it with the end marker in
\* place of every left_id and right_id that no item has gives: the same ids
\* in the same order, and an error only if that one raises it.
C14_DanglingIsEndMarker ==
    order.ran =>
        [ids |-> order.ids, err |-> order.err]
            = CrdtSequence_iter(Undangled(items))

\* a sequence of three items, one with a right_id and one with a left_id
\* that no item has, was iterated without error
C14_Witness ==
    /\ order.ran
    /\ order.err = ""
    /\ Len(order.ids) = 3
    /\ \E i, j \in DOMAIN items :
           /\ i # j
           /\ items[i].right_id \notin IdsOf(items) \cup {END_MARKER}
           /\ items[j].left_id \notin IdsOf(items) \cup {END_MARKER}

\* C15: iterating a sequence whose links contain no cycle ends without error
\* and yields the id of every item, tombstones too, each exactly once.
C15_EveryItemOnce ==
    (order.ran /\ ~HasCycle(items)) =>
        /\ order.err = ""
        /\ Len(order.ids) = Cardinality(IdsOf(items))
        /\ {order.ids[i] : i \in DOMAIN order.ids} = IdsOf(items)

\* a sequence of three items with a tombstone that is yielded between the
\* two others
C15_Witness ==
    /\ order.ran
    /\ order.err = ""
    /\ Len(order.ids) = 3
    /\ order.ids[2] \in Tombstones
    /\ \E i \in DOMAIN items :
           items[i].item_id \in Tombstones /\ items[i].deleted_length = 1

(***************************************************************************)
(* tests/test_crdt_sequence.py: CrdtSequenceComparison, the state machine  *)
(* that inserts and deletes characters in a plain string and in a set of   *)
(* items in parallel.  A string is a sequence of characters.               *)
(***************************************************************************)

\* the greatest value of last_id at which an item is still added
MaxEdits == 4

\* the characters add_char draws from
Chars == {"a", "b"}


\* "".join(values)
Join(values) ==
    LET RECURSIVE join(_)
        join(n) == IF n = 0 THEN <<>> ELSE join(n - 1) \o values[n]
    IN  join(Len(values))

\* seq[:i] + [x] + seq[i:]
InsertAt(seq, i, x) ==
    SubSeq(seq, 1, i) \o <<x>> \o SubSeq(seq, i + 1, Len(seq))

\* seq[:i] + seq[i+1:]
RemoveAt(seq, i) ==
    SubSeq(seq, 1, i) \o SubSeq(seq, i + 2, Len(seq))

\* the item add_char and add_empty_item make for position i
new_item(i, value) ==
    CrdtSequenceItem(
        cid(last_id),
        IF i >= 1 THEN string_items[i].item_id ELSE cid(0),
        IF i < Len(string_items) THEN string_items[i + 1].item_id ELSE cid(0),
        0, value)

\* the stream, reader and iteration variables of a state in which none of
\* them is in use
NoCodec ==
    /\ data = <<>>
    /\ pos = 0
    /\ current_block = None
    /\ scopes = <<>>
    /\ last = NoCall
    /\ blocks = <<>>
    /\ out = <<>>
    /\ options = NoOptions
    /\ producer = <<>>
    /\ lastRead = NoRead
    /\ lastWrite = NoWrite

\* CrdtSequenceComparison.__init__
InitEdit ==
    /\ items = <<>>
    /\ string = <<>>
    /\ string_items = <<>>
    /\ last_id = 1
    /\ order = NotIterated
    /\ pc = "edit"
    /\ NoCodec
    /\ NoArg

add_char ==
    /\ pc = "edit"
    /\ last_id <= MaxEdits
    /\ \E i \in 0..Len(string), c \in Chars :
       \E item \in {new_item(i, <<c>>)} :
           /\ string' = InsertAt(string, i, c)
           /\ string_items' = InsertAt(string_items, i, item)
           /\ items' = Append(items, item)
    /\ last_id' = last_id + 1
    /\ UNCHANGED <<data, pos, current_block, order, apiVars, streamVars,
                   callVars, treeVars, writerVars>>

add_empty_item ==
    /\ pc = "edit"
    /\ last_id <= MaxEdits
    /\ \E i \in 0..Len(string) :
           items' = Append(items, new_item(i, <<>>))
    /\ last_id' = last_id + 1
    /\ UNCHANGED <<data, pos, current_block, order, string, string_items,
                   apiVars, streamVars, callVars, treeVars, writerVars>>

delete_char ==
    /\ pc = "edit"
    /\ Len(string) > 0
    /\ \E i \in 0..(Len(string) - 1) :
       \E item_id \in {string_items[i + 1].item_id} :
           /\ string' = RemoveAt(string, i)
           /\ string_items' = RemoveAt(string_items, i)
           /\ items' = [n \in DOMAIN items |->
                            IF items[n].item_id = item_id
                            THEN [items[n] EXCEPT !.value = <<>>,
                                                  !.deleted_length = 1]
                            ELSE items[n]]
    /\ UNCHANGED <<data, pos, current_block, order, last_id, apiVars,
                   streamVars, callVars, treeVars, writerVars>>

NextEdit ==
    \/ add_char
    \/ add_empty_item
    \/ delete_char

SpecEdit == InitEdit /\ [][NextEdit]_vars

\* C12: after every step of CrdtSequenceComparison, iterating
\* CrdtSequence(items) ends without error and the concatenation of its
\* values() is the plain string (values_agree).
C12_ValuesAgree ==
    pc = "edit" =>
        /\ CrdtSequence_values(items).err = ""
        /\ Join(CrdtSequence_values(items).values) = string

\* a character was inserted before another, a third one between them was
\* deleted, and an empty item was added: the string is not in the order of
\* the item ids
C12_Witness ==
    /\ pc = "edit"
    /\ Len(string) = 2
    /\ Len(items) = 4
    /\ CrdtIdLess(string_items[2].item_id, string_items[1].item_id)
    /\ \E n \in DOMAIN items : items[n].deleted_length = 1
    /\ \E n \in DOMAIN items :
           items[n].deleted_length = 0 /\ items[n].value = <<>>
    /\ string[1] # string[2]

(***************************************************************************)
(* tests/test_tagged_block_writer.py: test_values_roundtrip, and           *)
(* tests/test_basic_data_stream.py: the same for the DataStream            *)
(* primitives.  A value is written to an empty buffer, the buffer is       *)
(* rewound and the value is read back.  arg is the value written, ret the  *)
(* result of the read.                                                     *)
(***************************************************************************)

Finite(sign, exponent, fraction) == Float("finite", sign, exponent, fraction)

\* 5.4 = 0x401599999999999A
Float_5_4 == Finite(0, 2, Strip(HexBits(<<5, 9, 9, 9, 9, 9, 9, 9, 9, 9, 9, 9, 10>>)))
\* 5.4 rounded to a float32 = 0x40ACCCCD
Float_5_4_f32 == Finite(0, 2, Strip(HexBits(<<5, 9, 9, 9, 9, 10>>)))
\* 16777217.0 = 2^24 + 1
Float_2_24_1 == Finite(0, 24, Zeros(23) \o <<1>>)

\* the values of a float32: 8.0, 0.0, -0.0, -3.25, 0.15625, the least
\* subnormal, the least normal, the largest finite, the infinities
Float32s ==
    {Finite(0, 3, <<>>), Float("zero", 0, 0, <<>>), Float("zero", 1, 0, <<>>),
     Finite(1, 1, <<1, 0, 1>>), Finite(0, -3, <<0, 1>>),
     Finite(0, -149, <<>>), Finite(0, -126, <<>>), Finite(0, 127, Ones(23)),
     Float_5_4_f32, Float("inf", 0, 0, <<>>), Float("inf", 1, 0, <<>>)}

\* with floats that are no float32
Float64s ==
    Float32s \cup {Float_5_4, Float_2_24_1, Finite(1, -1074, <<>>),
                   Finite(0, 1023, Ones(52)), Finite(0, -127, <<1>>)}

CodecIndexes == {0, 3, 20}
CodecIds == {CrdtId(1, 5), CrdtId(0, 0), CrdtId(3, 128), CrdtId(255, 2147483647)}
CodecBytes == {0, 7, 255}
CodecUint16s == {0, 258, 65535}
CodecInts == {0, 45, 52651, 16909060, 2147483647}
CodecVaruints ==
    {0, 3, 127, 128, 140, 16383, 16384, 2097152, 268435456, 2147483647}
\* "", "abc", "a√ó", "hello", a character beyond the basic plane, the
\* boundaries of the UTF-8 lengths, and a string of 128 bytes
CodecStrings ==
    {<<>>, <<97, 98, 99>>, <<97, 8730, 243>>, <<104, 101, 108, 108, 111>>,
     <<128512>>, <<0, 127, 128, 2047, 2048, 65535, 65536, 1114111>>,
     [i \in 1..32 |-> 128512]}
CodecTimestamps == {CrdtId(1, 4)}

\* the values to write with write_<type>
CodecValues(type) ==
    CASE type \in {"uint8", "byte"} -> CodecBytes
      [] type = "uint16" -> CodecUint16s
      [] type \in {"uint32", "int"} -> CodecInts
      [] type \in {"data_bool", "bool"} -> BOOLEAN
      [] type = "varuint" -> CodecVaruints
      [] type \in {"crdt_id", "id"} -> CodecIds
      [] type \in {"float32", "float"} -> {v \in Float64s : Packable(v, 8, 23)}
      [] type \in {"float64", "double"} -> Float64s
      [] type = "string" -> CodecStrings
      [] type = "int_pair" -> {<<0, 45>>, <<1404, 1872>>, <<2147483647, 16909060>>}
      [] type = "string_with_format" ->
            {<<<<97, 98, 99>>, Some(10)>>, <<<<97, 8730, 243>>, Some(0)>>,
             <<<<>>, Some(2147483647)>>}
      [] type = "lww_bool" ->
            {LwwValue(t, v) : t \in CodecTimestamps, v \in BOOLEAN}
      [] type = "lww_byte" ->
            {LwwValue(t, v) : t \in CodecTimestamps, v \in CodecBytes}
      [] type = "lww_float" ->
            {LwwValue(t, v) : t \in CodecTimestamps,
                              v \in {f \in Float64s : Packable(f, 8, 23)}}
      [] type = "lww_id" ->
            {LwwValue(t, v) : t \in CodecTimestamps, v \in CodecIds}
      [] type = "lww_string" ->
            {LwwValue(t, v) : t \in CodecTimestamps, v \in CodecStrings}

\* the primitives of DataStream, which take no index ("data_bool" is
\* DataStream.read_bool / write_bool)
DataTypes ==
    {"uint8", "uint16", "uint32", "data_bool", "varuint", "crdt_id",
     "float32", "float64"}
\* the methods of TaggedBlockWriter and TaggedBlockReader
TaggedTypes ==
    {"id", "bool", "byte", "int", "float", "double", "lww_bool", "lww_byte",
     "lww_float", "lww_id", "lww_string", "string", "string_with_format",
     "int_pair"}

Written(type, index, value) == [type |-> type, index |-> index, value |-> value]

\* getattr(writer, f"write_{data_type}")(index, value)
write(type, index, value) ==
    CASE type = "uint8" -> write_uint8(value)
      [] type = "uint16" -> write_uint16(value)
      [] type = "uint32" -> write_uint32(value)
      [] type = "data_bool" -> DS_write_bool(value)
      [] type = "varuint" -> write_varuint(value)
      [] type = "crdt_id" -> write_crdt_id(value)
      [] type = "float32" -> write_float32(value)
      [] type = "float64" -> write_float64(value)
      [] type = "id" -> write_id(index, value)
      [] type = "bool" -> write_bool(index, value)
      [] type = "byte" -> write_byte(index, value)
      [] type = "int" -> write_int(index, value)
      [] type = "float" -> write_float(index, value)
      [] type = "double" -> write_double(index, value)
      [] type = "lww_bool" -> write_lww_bool(index, value)
      [] type = "lww_byte" -> write_lww_byte(index, value)
      [] type = "lww_float" -> write_lww_float(index, value)
      [] type = "lww_id" -> write_lww_id(index, value)
      [] type = "lww_string" -> write_lww_string(index, value)
      [] type = "string" -> write_string(index, value)
      [] type = "string_with_format" ->
            write_string_with_format(index, value[1], value[2][1])
      [] type = "int_pair" -> write_int_pair(index, value)

\* getattr(reader, f"read_{data_type}")(index)
read(type, d, p, index) ==
    CASE type = "uint8" -> read_uint8(d, p)
      [] type = "uint16" -> read_uint16(d, p)
      [] type = "uint32" -> read_uint32(d, p)
      [] type = "data_bool" -> DS_read_bool(d, p)
      [] type = "varuint" -> read_varuint(d, p)
      [] type = "crdt_id" -> read_crdt_id(d, p)
      [] type = "float32" -> read_float32(d, p)
      [] type = "float64" -> read_float64(d, p)
      [] type = "id" -> read_id(d, p, index)
      [] type = "bool" -> read_bool(d, p, index)
      [] type = "byte" -> read_byte(d, p, index)
      [] type = "int" -> read_int(d, p, index)
      [] type = "float" -> read_float(d, p, index)
      [] type = "double" -> read_double(d, p, index)
      [] type = "lww_bool" -> read_lww_bool(d, p, index)
      [] type = "lww_byte" -> read_lww_byte(d, p, index)
      [] type = "lww_float" -> read_lww_float(d, p, index)
      [] type = "lww_id" -> read_lww_id(d, p, index)
      [] type = "lww_string" -> read_lww_string(d, p, index)
      [] type = "string" -> read_string(d, p, index)
      [] type = "string_with_format" -> read_string_with_format(d, p, index)
      [] type = "int_pair" -> read_int_pair(d, p, index)

\* an empty buffer with a writer and a reader on it
InitCodec ==
    /\ data = <<>>
    /\ pos = 0
    /\ current_block = None
    /\ scopes = <<>>
    /\ last = NoCall
    /\ blocks = <<>>
    /\ out = <<>>
    /\ options = NoOptions
    /\ producer = <<>>
    /\ lastRead = NoRead
    /\ lastWrite = NoWrite
    /\ items = <<>>
    /\ order = NotIterated
    /\ NoEdit
    /\ NoArg
    /\ pc = "codec"

\* write(index, value)
write_value ==
    /\ pc = "codec"
    /\ arg = <<>>
    /\ \E type \in DataTypes \cup TaggedTypes :
       \E index \in (IF type \in DataTypes THEN {0} ELSE CodecIndexes) :
       \E value \in CodecValues(type) :
           /\ arg' = <<Written(type, index, value)>>
           /\ data' = written(write(type, index, value))
    /\ pos' = Len(data')
    /\ UNCHANGED <<current_block, apiVars, streamVars, crdtVars, editVars, treeVars, writerVars, ret>>

\* buf.seek(0); read(index)
read_value ==
    /\ pc = "codec"
    /\ arg # <<>>
    /\ ret = <<>>
    /\ \E r \in {read(arg[1].type, data, 0, arg[1].index)} :
           /\ ret' = <<r>>
           /\ pos' = r.pos
    /\ UNCHANGED <<data, current_block, apiVars, streamVars, crdtVars,
                   editVars, treeVars, writerVars, arg>>

NextCodec ==
    \/ write_value
    \/ read_value

SpecCodec == InitCodec /\ [][NextCodec]_vars

\* the value is one that write_<type> stores exactly: a float written by
\* write_float32, write_float or write_lww_float is a float32
Legal(type, value) ==
    CASE type \in {"float32", "float"} -> Representable(value, 8, 23)
      [] type = "lww_float" -> Representable(value.value, 8, 23)
      [] OTHER -> TRUE

ReadBack == pc = "codec" /\ arg # <<>> /\ ret # <<>>

\* C16: for every type, every index in {0, 3, 20} and every value that the
\* type stores exactly, reading the bytes that write_<type>(index, value)
\* wrote returns the value without error and leaves the position at the end
\* of those bytes; write_varuint writes 0x8C as 8C 01 and 0x3FFF as FF 7F.
C16_ReadInvertsWrite ==
    /\ (ReadBack /\ Legal(arg[1].type, arg[1].value)) =>
           /\ ret[1].err = ""
           /\ ret[1].val = arg[1].value
           /\ ret[1].pos = Len(data)
           /\ pos = Len(data)
    /\ (arg # <<>> /\ arg[1].type = "varuint") =>
           /\ arg[1].value = 140 => data = <<140, 1>>
           /\ arg[1].value = 16383 => data = <<255, 127>>
           /\ arg[1].value = 3 => data = <<3>>

\* a string with characters of two and three bytes was written at index 20,
\* whose tag takes two bytes, and read back
C16_Witness ==
    /\ ReadBack
    /\ arg[1].type = "lww_string"
    /\ arg[1].index = 20
    /\ arg[1].value.value = <<97, 8730, 243>>
    /\ Len(data) = 22
    /\ ret[1].val = arg[1].value

\* a float that is no float32 comes back from write_float rounded to the
\* nearest float32
C16_FloatRounded ==
    (ReadBack /\ arg[1].type = "float" /\ arg[1].value = Float_5_4) =>
        ret[1].val = Float_5_4_f32

(***************************************************************************)
(* text.py: expand_text_item.  A text item is a CrdtSequenceItem whose     *)
(* value (the attribute `text` in text.py) is a string, the sequence of    *)
(* its characters.                                                         *)
(***************************************************************************)

\* TextItem(item_id, left_id, right_id, deleted_length, text): the class
\* text.py builds and reads; its string is the attribute text
TextItem(item_id, left_id, right_id, deleted_length, text) ==
    [item_id |-> item_id, left_id |-> left_id, right_id |-> right_id,
     deleted_length |-> deleted_length, text |-> text]

\* the object has the attribute
hasattr(object, name) == name \in DOMAIN object

\* the for loop of expand_text_item over chars[:-1] and the yield after it;
\* chars is the list of the values still to yield
RECURSIVE expand_loop(_, _, _, _, _)
expand_loop(chars, item_id, left_id, outer_right_id, deleted_length) ==
    IF Len(chars) = 1
    THEN <<TextItem(item_id, left_id, outer_right_id, deleted_length,
                    chars[1])>>
    ELSE LET right_id == CrdtId(item_id.part1, item_id.part2 + 1)
         IN  <<TextItem(item_id, left_id, right_id, deleted_length, chars[1])>>
             \o expand_loop(Tail(chars), right_id, item_id, outer_right_id,
                            deleted_length)

\* list(expand_text_item(item)): [err, items].  Both branches begin by
\* reading item.text, which a CrdtSequenceItem (its string is the attribute
\* value) does not have.
expand_text_item(item) ==
    IF ~hasattr(item, "text") THEN [err |-> "AttributeError", items |-> <<>>]
    ELSE IF item.deleted_length > 0
    THEN IF item.text # <<>> THEN [err |-> "AssertionError", items |-> <<>>]
         ELSE [err |-> "",
               items |-> expand_loop([i \in 1..item.deleted_length |-> <<>>],
                                     item.item_id, item.left_id,
                                     item.right_id, 1)]
    ELSE IF ~(Len(item.text) > 0)
    THEN [err |-> "AssertionError", items |-> <<>>]
    ELSE [err |-> "",
          items |-> expand_loop([i \in DOMAIN item.text |-> <<item.text[i]>>],
                                item.item_id, item.left_id, item.right_id, 0)]

\* list(expand_text_items(items)): [err, items], the items yielded before an
\* exception being lost with the list
RECURSIVE expand_text_items(_)
expand_text_items(seq) ==
    IF seq = <<>> THEN [err |-> "", items |-> <<>>]
    ELSE LET first == expand_text_item(Head(seq))
             rest == expand_text_items(Tail(seq))
         IN  IF first.err # "" THEN [err |-> first.err, items |-> <<>>]
             ELSE IF rest.err # "" THEN rest
             ELSE [err |-> "", items |-> first.items \o rest.items]

MaxText == 3
MaxDeleted == 3
TextChars == {"A", "\n"}
Strings(n) == UNION {[1..k -> TextChars] : k \in 0..n}
ExpandIds == {CrdtId(1, 17), CrdtId(2, 0)}
ExpandSides == {END_MARKER, CrdtId(1, 20), CrdtId(2, 1)}

\* the stream, reader, iteration and comparison variables of a state in which
\* a function is applied on its own
OnlyCall ==
    /\ tree = <<>>
    /\ given = <<>>
    /\ writer = NoWriter
    /\ NoCodec
    /\ NoEdit
    /\ items = <<>>
    /\ order = NotIterated

\* The item is a CrdtSequenceItem, which is what Text.items holds and
\* what the tests make (make_item), or a TextItem.
InitExpand ==
    /\ OnlyCall
    /\ pc = "expand"
    /\ ret = <<>>
    /\ \E item_id \in ExpandIds, left_id \in ExpandSides, right_id \in ExpandSides :
       \E deleted_length \in 0..MaxDeleted, text \in Strings(MaxText) :
           \/ arg = <<CrdtSequenceItem(item_id, left_id, right_id,
                                       deleted_length, text)>>
           \/ arg = <<TextItem(item_id, left_id, right_id,
                               deleted_length, text)>>

\* result = list(expand_text_item(item))
expand ==
    /\ pc = "expand"
    /\ ret = <<>>
    /\ ret' = <<expand_text_item(arg[1])>>
    /\ UNCHANGED <<data, pos, current_block, apiVars, streamVars, crdtVars,
                   editVars, treeVars, writerVars, arg>>

NextExpand == expand

SpecExpand == InitExpand /\ [][NextExpand]_vars

Expanded == pc = "expand" /\ ret # <<>>

\* the string of the item, under the attribute its class has
StringOf(item) == IF hasattr(item, "text") THEN item.text ELSE item.value

\* item number i of the n items that the item expands to, with the given
\* characters and deleted_length: an item of the class of `item`
Chained(item, i, n, deleted_length, chars) ==
    LET item_id == CrdtId(item.item_id.part1, item.item_id.part2 + i - 1)
        left_id == IF i = 1 THEN item.left_id
                   ELSE CrdtId(item.item_id.part1, item.item_id.part2 + i - 2)
        right_id == IF i = n THEN item.right_id
                    ELSE CrdtId(item.item_id.part1, item.item_id.part2 + i)
    IN  IF hasattr(item, "text")
        THEN TextItem(item_id, left_id, right_id, deleted_length, chars)
        ELSE CrdtSequenceItem(item_id, left_id, right_id, deleted_length,
                              chars)

\* the item expands as C17 says
ExpandsToChain(item, result) ==
    LET n == Len(StringOf(item))
        k == item.deleted_length
    IN  /\ (k = 0 /\ n > 0) =>
            /\ result.err = ""
            /\ Len(result.items) = n
            /\ \A i \in 1..n :
                   result.items[i] = Chained(item, i, n, 0, <<StringOf(item)[i]>>)
        /\ (k > 0 /\ n = 0) =>
            /\ result.err = ""
            /\ Len(result.items) = k
            /\ \A i \in 1..k :
                   result.items[i] = Chained(item, i, k, 1, <<>>)
        /\ (k = 0 /\ n = 1) => result.items = <<item>>

\* C17: an item with id (a, b), deleted_length 0 and a string of n >= 1
\* characters expands to n one-character items with ids (a, b) .. (a, b+n-1),
\* each linked to its neighbours, the first keeping the item's left_id and
\* the last its right_id; an item with an empty string and deleted_length
\* k > 0 expands to k such items with empty value and deleted_length 1; an
\* item of one character expands to itself.
C17_ExpandChains == Expanded => ExpandsToChain(arg[1], ret[1])

\* what holds of C17: an item whose string is the attribute text expands
\* as claimed
C17_TextItemsExpand ==
    (Expanded /\ hasattr(arg[1], "text")) => ExpandsToChain(arg[1], ret[1])

\* the item make_item(17, 0, 0, 0, "AAA") of the tests, a CrdtSequenceItem,
\* was given to expand_text_item, which raised AttributeError
C17_Witness ==
    /\ Expanded
    /\ arg[1] = CrdtSequenceItem(CrdtId(1, 17), END_MARKER, END_MARKER, 0,
                                 <<"A", "A", "A">>)
    /\ ret[1] = [err |-> "AttributeError", items |-> <<>>]

\* a TextItem of three characters with a newline in the middle was expanded
C17_WitnessTextItem ==
    /\ Expanded
    /\ hasattr(arg[1], "text")
    /\ arg[1].deleted_length = 0
    /\ arg[1].text = <<"A", "\n", "A">>
    /\ arg[1].left_id = CrdtId(1, 20)
    /\ Len(ret[1].items) = 3
    /\ ret[1].items[3].left_id = CrdtId(arg[1].item_id.part1, arg[1].item_id.part2 + 1)

(***************************************************************************)
(* scene_items.py: Text.formatted_lines_with_ids, and text.py:             *)
(* toposort_text and extract_text_lines.  A string is the sequence of its  *)
(* characters.                                                             *)
(***************************************************************************)

TextFormat_PLAIN == 1
TextFormat_HEADING == 2
TextFormat_BULLET == 4

\* the for loop of formatted_lines_with_ids over the ids still to come and
\* the yield after it: [err, lines], a line being <<format, line, char_ids>>
RECURSIVE lines_with_ids_loop(_, _, _, _, _, _)
lines_with_ids_loop(ids, dict, char_formats, current_format, current_line, current_ids) ==
    IF ids = <<>>
    THEN [err |-> "", lines |-> <<<<current_format, current_line, current_ids>>>>]
    ELSE IF ~hasattr(dict[Head(ids)], "value")
    THEN [err |-> "AttributeError", lines |-> <<>>]
    ELSE LET k == Head(ids)
             char == dict[k].value
             line == current_line \o char
             line_ids == Append(current_ids, k)
             newline == char = <<"\n">>
             after_newline == IF newline THEN TextFormat_PLAIN ELSE current_format
             next_format == IF k \in DOMAIN char_formats
                            THEN char_formats[k] ELSE after_newline
             rest == lines_with_ids_loop(
                         Tail(ids), dict, char_formats, next_format,
                         IF newline THEN <<>> ELSE line,
                         IF newline THEN <<>> ELSE line_ids)
         IN  IF ~(Len(char) <= 1) THEN [err |-> "AssertionError", lines |-> <<>>]
             ELSE IF rest.err # "" THEN rest
             ELSE IF newline
             THEN [err |-> "",
                   lines |-> <<<<current_format, line, line_ids>>>> \o rest.lines]
             ELSE rest

\* list(Text(items, formats, ..).formatted_lines_with_ids()); seq is the list
\* of the items of `items`, formats maps ids to LwwValues.  char_items[k] is
\* the attribute value of the item under k, which the TextItems that
\* expand_text_items yields do not have; an exception of the iteration
\* comes after the ids it yielded are worked through.
formatted_lines_with_ids(seq, formats) ==
    LET char_formats == [k \in DOMAIN formats |-> formats[k].value]
        current_format == IF END_MARKER \in DOMAIN char_formats
                          THEN char_formats[END_MARKER] ELSE TextFormat_PLAIN
        expanded == expand_text_items(dict_values(seq))
        char_items == expanded.items
        order_of_chars == CrdtSequence_iter(char_items)
        lines == lines_with_ids_loop(order_of_chars.ids, item_dict(char_items),
                                     char_formats, current_format, <<>>, <<>>)
    IN  IF expanded.err # "" THEN [err |-> expanded.err, lines |-> <<>>]
        ELSE IF lines.err # "" THEN lines
        ELSE IF order_of_chars.err # ""
        THEN [err |-> order_of_chars.err, lines |-> <<>>]
        ELSE lines

\* toposort_text._side_id
text_side_id(item, side) ==
    LET id == IF side = "left" THEN item.left_id ELSE item.right_id
    IN  IF id = END_MARKER
        THEN IF side = "left" THEN StartKey ELSE EndKey
        ELSE IdKey(id)

\* data of toposort_text after the loop that builds it and the filling in of
\* the sources
toposort_text_data(dict) ==
    LET comes_after(k) ==
            (IF k.tag = "id" /\ k.id \in DOMAIN dict
             THEN {text_side_id(dict[k.id], "left")} ELSE {})
            \cup {IdKey(id) : id \in {i \in DOMAIN dict :
                                          text_side_id(dict[i], "right") = k}}
        keys == {IdKey(id) : id \in DOMAIN dict}
                \cup {text_side_id(dict[id], "right") : id \in DOMAIN dict}
        sources == UNION {comes_after(k) : k \in keys}
    IN  [k \in keys \cup sources |->
            IF k \in keys THEN comes_after(k) ELSE {}]

\* the while loop of toposort_text and the test after it
RECURSIVE toposort_text_loop(_, _, _)
toposort_text_loop(dict, dat, ids) ==
    LET next_items == {k \in DOMAIN dat : dat[k] = {}}
    IN  IF next_items = {EndKey}
        THEN [ids |-> ids,
              err |-> IF DOMAIN dat # {EndKey} THEN "ValueError" ELSE ""]
        ELSE IF next_items = {}
        THEN [ids |-> ids, err |-> "AssertionError"]
        ELSE toposort_text_loop(
                 dict,
                 [k \in DOMAIN dat \ next_items |-> dat[k] \ next_items],
                 ids \o sorted({k.id : k \in {n \in next_items :
                                    n.tag = "id" /\ n.id \in DOMAIN dict}}))

\* list(toposort_text(items)): [ids, err]
toposort_text(seq) ==
    IF seq = <<>> THEN [ids |-> <<>>, err |-> ""]
    ELSE toposort_text_loop(item_dict(seq),
                            toposort_text_data(item_dict(seq)), <<>>)

\* the for loop of extract_text_lines and the yield after it: [err, lines],
\* a line being <<format, line>>
RECURSIVE text_lines_loop(_, _, _, _, _)
text_lines_loop(ids, char_ids, format_for_char, current_format, current_line) ==
    IF ids = <<>>
    THEN [err |-> "", lines |-> <<<<current_format, current_line>>>>]
    ELSE LET k == Head(ids)
             char == char_ids[k].text
             newline == char = <<"\n">>
             after_newline == IF newline THEN TextFormat_PLAIN ELSE current_format
             next_format == IF k \in DOMAIN format_for_char
                            THEN format_for_char[k].format_type
                            ELSE after_newline
             rest == text_lines_loop(
                         Tail(ids), char_ids, format_for_char, next_format,
                         IF newline THEN <<>> ELSE current_line \o char)
         IN  IF ~(Len(char) <= 1) THEN [err |-> "AssertionError", lines |-> <<>>]
             ELSE IF rest.err # "" THEN rest
             ELSE IF newline
             THEN [err |-> "",
                   lines |-> <<<<current_format, current_line>>>> \o rest.lines]
             ELSE rest

TextFormatItem(item_id, char_id, format_type) ==
    [item_id |-> item_id, char_id |-> char_id, format_type |-> format_type]

\* list(extract_text_lines(root_text_block)): the function reads the
\* attributes text_items and text_formats, which the RootTextBlock of
\* scene_stream.py (block_id, value) does not have
extract_text_lines(root_text_block) ==
    IF ~hasattr(root_text_block, "text_items")
    THEN [err |-> "AttributeError", lines |-> <<>>]
    ELSE
    LET text_items == root_text_block.text_items
        expanded == expand_text_items(text_items)
        char_ids == item_dict(expanded.items)
        char_order == toposort_text(expanded.items)
        text_formats == IF hasattr(root_text_block, "text_formats")
                        THEN root_text_block.text_formats ELSE <<>>
        format_for_char ==
            [k \in {text_formats[i].char_id : i \in DOMAIN text_formats} |->
                text_formats[CHOOSE i \in DOMAIN text_formats :
                    /\ text_formats[i].char_id = k
                    /\ \A j \in DOMAIN text_formats :
                           j > i => text_formats[j].char_id # k]]
        current_format == IF END_MARKER \in DOMAIN format_for_char
                          THEN format_for_char[END_MARKER].format_type
                          ELSE TextFormat_PLAIN
    IN  IF expanded.err # "" THEN [err |-> expanded.err, lines |-> <<>>]
        ELSE IF ~hasattr(root_text_block, "text_formats")
        THEN [err |-> "AttributeError", lines |-> <<>>]
        ELSE IF char_order.err # "" THEN [err |-> char_order.err, lines |-> <<>>]
        ELSE text_lines_loop(char_order.ids, char_ids, format_for_char,
                             current_format, <<>>)

\* The texts given to the two functions: a first item (1, 10) with a string,
\* alone or with a second item (1, 20) that is linked into it, the links
\* possibly naming characters the first item does not have.
MaxFormats == 2
FirstItems ==
    {CrdtSequenceItem(CrdtId(1, 10), END_MARKER, END_MARKER, 0, text) :
        text \in Strings(MaxText) \ {<<>>}}
SecondItems ==
    {CrdtSequenceItem(CrdtId(1, 20), left_id, right_id, 0, text) :
        left_id \in {END_MARKER, CrdtId(1, 10), CrdtId(1, 11)},
        right_id \in {END_MARKER, CrdtId(1, 11)},
        text \in Strings(2) \ {<<>>}}
    \cup {CrdtSequenceItem(CrdtId(1, 20), CrdtId(1, 10), END_MARKER, 1, <<>>)}
Texts == {<<first>> : first \in FirstItems}
         \cup {<<first, second>> : first \in FirstItems, second \in SecondItems}
FormatKeys ==
    {END_MARKER, CrdtId(1, 10), CrdtId(1, 11), CrdtId(1, 12), CrdtId(1, 20)}
FormatMaps ==
    UNION {[keys -> {LwwValue(CrdtId(1, 15), TextFormat_HEADING),
                     LwwValue(CrdtId(1, 15), TextFormat_BULLET)}] :
              keys \in {ks \in SUBSET FormatKeys : Cardinality(ks) <= MaxFormats}}

\* the text_formats of the older RootTextBlock for a map of formats: one
\* TextFormatItem for each key
text_formats_of(formats) ==
    LET keys == sorted(DOMAIN formats)
    IN  [i \in DOMAIN keys |->
            TextFormatItem(CrdtId(1, 15), keys[i], formats[keys[i]].value)]

\* the text_items of the older RootTextBlock for the items of a text: one
\* TextItem for each
text_items_of(seq) ==
    [i \in DOMAIN seq |->
        TextItem(seq[i].item_id, seq[i].left_id, seq[i].right_id,
                 seq[i].deleted_length, seq[i].value)]

\* RootTextBlock(block_id, value) of scene_stream.py
RootTextBlock(block_id, value) == [block_id |-> block_id, value |-> value]

\* the block that text.py is written for, which has the attributes
\* text_items and text_formats and holds the same text
TextItemsBlock(block_id, value) ==
    [block_id |-> block_id, text_items |-> text_items_of(value.items),
     text_formats |-> text_formats_of(value.formats)]

\* arg is a Text and a block that holds it: the RootTextBlock of
\* scene_stream.py, or a block with text_items and text_formats
InitLines ==
    /\ OnlyCall
    /\ pc = "lines"
    /\ ret = <<>>
    /\ \E seq \in Texts, formats \in FormatMaps :
       \E text \in {Text(seq, formats, FloatZero, FloatZero, FloatZero)} :
           \/ arg = <<text, RootTextBlock(CrdtId(0, 0), text)>>
           \/ arg = <<text, TextItemsBlock(CrdtId(0, 0), text)>>

\* list(text.formatted_lines_with_ids())
formatted_lines ==
    /\ pc = "lines"
    /\ ret = <<>>
    /\ \E r \in {formatted_lines_with_ids(arg[1].items, arg[1].formats)} :
           ret' = <<[by |-> "formatted_lines_with_ids", err |-> r.err,
                     lines |-> r.lines]>>
    /\ UNCHANGED <<data, pos, current_block, apiVars, streamVars, crdtVars,
                   editVars, treeVars, writerVars, arg>>

\* list(extract_text_lines(block))
extract_lines ==
    /\ pc = "lines"
    /\ ret = <<>>
    /\ \E r \in {extract_text_lines(arg[2])} :
           ret' = <<[by |-> "extract_text_lines", err |-> r.err,
                     lines |-> r.lines]>>
    /\ UNCHANGED <<data, pos, current_block, apiVars, streamVars, crdtVars,
                   editVars, treeVars, writerVars, arg>>

NextLines ==
    \/ formatted_lines
    \/ extract_lines

SpecLines == InitLines /\ [][NextLines]_vars

LinesCalled == pc = "lines" /\ ret # <<>>
Extracted == LinesCalled /\ ret[1].err = ""

\* the characters of the text in CRDT order, as the function that ran
\* orders them, and the ids of the newlines among them
CharsOf(text) == expand_text_items(text_items_of(dict_values(text))).items
CharOrder ==
    IF ret[1].by = "formatted_lines_with_ids"
    THEN CrdtSequence_iter(CharsOf(arg[1].items)).ids
    ELSE toposort_text(CharsOf(arg[1].items)).ids
NewlineIds ==
    SelectSeq(CharOrder,
              LAMBDA k : item_dict(CharsOf(arg[1].items))[k].text = <<"\n">>)

\* the id under which paragraph j looks up its style, and the style the map
\* has there
StartId(j) == IF j = 1 THEN END_MARKER ELSE NewlineIds[j - 1]
StyleAt(id) ==
    IF id \in DOMAIN arg[1].formats THEN arg[1].formats[id].value
    ELSE TextFormat_PLAIN

\* C18: the text is split into one paragraph more than it has newlines, and
\* the style of each paragraph is the style the map has under the id of the
\* newline before it (the end marker for the first paragraph), PLAIN when
\* the map has none there, whatever the map has under other ids.
C18_StyleOfPrecedingNewline ==
    LinesCalled =>
        /\ ret[1].err = ""
        /\ Len(ret[1].lines) = Len(NewlineIds) + 1
        /\ \A j \in DOMAIN ret[1].lines : ret[1].lines[j][1] = StyleAt(StartId(j))

\* C18, for maps that have styles under the end marker and the ids of
\* newlines only
C18_StyleWhenKeyedByNewlines ==
    (Extracted /\ \A id \in DOMAIN arg[1].formats :
                      id = END_MARKER \/ \E n \in DOMAIN NewlineIds : NewlineIds[n] = id) =>
        /\ Len(ret[1].lines) = Len(NewlineIds) + 1
        /\ \A j \in DOMAIN ret[1].lines : ret[1].lines[j][1] = StyleAt(StartId(j))

\* extract_text_lines was given the RootTextBlock of a text of two
\* paragraphs whose map has a style under the id of the newline between them
\* and another under the end marker, and raised AttributeError
C18_Witness ==
    /\ LinesCalled
    /\ ret[1].by = "extract_text_lines"
    /\ arg[2] = RootTextBlock(CrdtId(0, 0), arg[1])
    /\ Len(NewlineIds) = 1
    /\ NewlineIds[1] \in DOMAIN arg[1].formats
    /\ END_MARKER \in DOMAIN arg[1].formats
    /\ ret[1] = [by |-> "extract_text_lines", err |-> "AttributeError",
                 lines |-> <<>>]

\* two paragraphs were extracted from a block with text_items whose map has
\* a style under the id of the newline between them and another under the
\* end marker
C18_WitnessTextItems ==
    /\ Extracted
    /\ Len(ret[1].lines) = 2
    /\ NewlineIds[1] \in DOMAIN arg[1].formats
    /\ END_MARKER \in DOMAIN arg[1].formats
    /\ ret[1].lines[1][1] # ret[1].lines[2][1]

(***************************************************************************)
(* Paragraph extraction: TextDocument.from_scene_item, which the tests     *)
(* call (tests/test_text.py, doc_from_items) and text.py does not have.    *)
(* It expands the items of the text with text.py's expand_text_items and   *)
(* walks the characters in CRDT order.  The value of an item is a string   *)
(* or an inline-format code; the code n is written here as the one-element *)
(* sequence <<FormatCode(n)>>, which no string is.                         *)
(***************************************************************************)

START_BOLD == 1
END_BOLD == 2
START_ITALIC == 3
END_ITALIC == 4

FormatCode(n) ==
    CASE n = START_BOLD -> "START_BOLD"
      [] n = END_BOLD -> "END_BOLD"
      [] n = START_ITALIC -> "START_ITALIC"
      [] n = END_ITALIC -> "END_ITALIC"
      [] OTHER -> "UNKNOWN_CODE"
FormatCodes ==
    {"START_BOLD", "END_BOLD", "START_ITALIC", "END_ITALIC", "UNKNOWN_CODE"}
IsCode(value) == Len(value) = 1 /\ value[1] \in FormatCodes

Properties(weight, style) == [font_weight |-> weight, font_style |-> style]
CrdtStr(str, ids, properties) == [s |-> str, i |-> ids, properties |-> properties]
Paragraph(contents, start_id, style) ==
    [contents |-> contents, start_id |-> start_id, style |-> style]

\* the properties after a format code: 1 = start bold, 2 = end bold,
\* 3 = start italic, 4 = end italic; unknown codes are ignored
handle_formatting_code(properties, code) ==
    CASE code = "START_BOLD" -> [properties EXCEPT !.font_weight = "bold"]
      [] code = "END_BOLD" -> [properties EXCEPT !.font_weight = "normal"]
      [] code = "START_ITALIC" -> [properties EXCEPT !.font_style = "italic"]
      [] code = "END_ITALIC" -> [properties EXCEPT !.font_style = "normal"]
      [] OTHER -> properties

\* the runs with one more character: the character joins the last run when
\* the properties are those of that run and begins a new run otherwise
add_char_to_runs(contents, char, k, properties) ==
    IF contents = <<>> \/ contents[Len(contents)].properties # properties
    THEN Append(contents, CrdtStr(char, <<k>>, properties))
    ELSE [contents EXCEPT ![Len(contents)] =
             CrdtStr(@.s \o char, Append(@.i, k), properties)]

\* the paragraphs of the characters ids still to come
RECURSIVE paragraphs_loop(_, _, _, _, _, _)
paragraphs_loop(ids, dict, styles, properties, start_id, contents) ==
    LET style == IF start_id \in DOMAIN styles THEN styles[start_id].value
                 ELSE TextFormat_PLAIN
    IN  IF ids = <<>> THEN <<Paragraph(contents, start_id, style)>>
        ELSE LET k == Head(ids)
                 value == dict[k].value
             IN  IF value = <<>>
                 THEN paragraphs_loop(Tail(ids), dict, styles, properties,
                                      start_id, contents)
                 ELSE IF IsCode(value)
                 THEN paragraphs_loop(Tail(ids), dict, styles,
                          handle_formatting_code(properties, value[1]),
                          start_id, contents)
                 ELSE IF value = <<"\n">>
                 THEN <<Paragraph(contents, start_id, style)>>
                      \o paragraphs_loop(Tail(ids), dict, styles, properties,
                                         k, <<>>)
                 ELSE paragraphs_loop(Tail(ids), dict, styles, properties,
                          start_id,
                          add_char_to_runs(contents, value, k, properties))

\* TextDocument.from_scene_item(Text(CrdtSequence(items), styles, ..)):
\* [err, contents].  The items are expanded by expand_text_items of
\* text.py, which raises AttributeError on a CrdtSequenceItem.
from_scene_item(seq, styles) ==
    LET expanded == expand_text_items(dict_values(seq))
        char_items == expanded.items
        order_of_chars == CrdtSequence_iter(char_items)
    IN  IF expanded.err # "" THEN [err |-> expanded.err, contents |-> <<>>]
        ELSE IF order_of_chars.err # ""
        THEN [err |-> order_of_chars.err, contents |-> <<>>]
        ELSE [err |-> "",
              contents |-> paragraphs_loop(order_of_chars.ids,
                               item_dict(char_items), styles,
                               Properties("normal", "normal"), END_MARKER, <<>>)]

\* make_item of tests/test_text.py, the value being a string or a code
text_item(item_id, left_id, right_id, value) ==
    CrdtSequenceItem(cid(item_id), cid(left_id), cid(right_id), 0, value)
code_item(item_id, left_id, right_id, code) ==
    CrdtSequenceItem(cid(item_id), cid(left_id), cid(right_id), 0,
                     <<FormatCode(code)>>)

\* test_inline_formatting_italic_over_paragraphs: the items and the
\* contents the test expects
ItalicOverParagraphs ==
    <<text_item(20, 0, 0, <<"A">>),
      text_item(21, 20, 0, <<"B", "\n", "C">>),
      text_item(24, 23, 0, <<"D">>),
      code_item(30, 20, 21, START_ITALIC),
      code_item(31, 23, 24, END_ITALIC)>>
ItalicOverParagraphsContents ==
    <<Paragraph(<<CrdtStr(<<"A">>, <<cid(20)>>, Properties("normal", "normal")),
                  CrdtStr(<<"B">>, <<cid(21)>>, Properties("normal", "italic"))>>,
                cid(0), TextFormat_PLAIN),
      Paragraph(<<CrdtStr(<<"C">>, <<cid(23)>>, Properties("normal", "italic")),
                  CrdtStr(<<"D">>, <<cid(24)>>, Properties("normal", "normal"))>>,
                cid(22), TextFormat_PLAIN)>>

\* test_inline_formatting_bold_italic_interleaved_over_paragraphs
BoldItalicInterleaved ==
    <<text_item(20, 0, 0, <<"A", "B", "C", "\n", "D", "E", "F">>),
      code_item(30, 20, 21, START_ITALIC),
      code_item(31, 21, 22, START_BOLD),
      code_item(32, 24, 25, END_ITALIC),
      code_item(33, 25, 26, END_BOLD)>>
BoldItalicInterleavedContents ==
    <<Paragraph(<<CrdtStr(<<"A">>, <<cid(20)>>, Properties("normal", "normal")),
                  CrdtStr(<<"B">>, <<cid(21)>>, Properties("normal", "italic")),
                  CrdtStr(<<"C">>, <<cid(22)>>, Properties("bold", "italic"))>>,
                cid(0), TextFormat_PLAIN),
      Paragraph(<<CrdtStr(<<"D">>, <<cid(24)>>, Properties("bold", "italic")),
                  CrdtStr(<<"E">>, <<cid(25)>>, Properties("bold", "normal")),
                  CrdtStr(<<"F">>, <<cid(26)>>, Properties("normal", "normal"))>>,
                cid(23), TextFormat_PLAIN)>>

\* Further texts: a string at id 20.. with up to MaxCodes format codes, each
\* put before one of its characters or after the last
MaxCodes == 2
DocStrings == {str \in Strings(MaxText) : Len(str) >= 2}
CodeItems(item_id, str) ==
    {code_item(item_id, IF at = 0 THEN 0 ELSE 19 + at,
               IF at = Len(str) THEN 0 ELSE 20 + at, code) :
        at \in 0..Len(str), code \in 1..5}
DocTexts ==
    {ItalicOverParagraphs, BoldItalicInterleaved}
    \cup {<<text_item(20, 0, 0, str)>> : str \in DocStrings}
    \cup UNION {{<<text_item(20, 0, 0, str), c1>> : c1 \in CodeItems(30, str)} :
                   str \in DocStrings}
    \cup (IF MaxCodes >= 2
          THEN UNION {{<<text_item(20, 0, 0, str), c1, c2>> :
                          c1 \in CodeItems(31, str), c2 \in CodeItems(30, str)} :
                         str \in DocStrings}
          ELSE {})
DocStyles ==
    {<<>>, (cid(21) :> LwwValue(cid(15), TextFormat_HEADING))}

InitDoc ==
    /\ OnlyCall
    /\ pc = "doc"
    /\ ret = <<>>
    /\ \E text \in DocTexts, styles \in DocStyles :
           arg = <<[items |-> text, styles |-> styles]>>

\* doc = TextDocument.from_scene_item(root_text)
doc_from_items ==
    /\ pc = "doc"
    /\ ret = <<>>
    /\ ret' = <<from_scene_item(arg[1].items, arg[1].styles)>>
    /\ UNCHANGED <<data, pos, current_block, apiVars, streamVars, crdtVars,
                   editVars, treeVars, writerVars, arg>>

NextDoc == doc_from_items

SpecDoc == InitDoc /\ [][NextDoc]_vars

DocCalled == pc = "doc" /\ ret # <<>>

RECURSIVE Flatten(_)
Flatten(seqs) == IF seqs = <<>> THEN <<>> ELSE Head(seqs) \o Flatten(Tail(seqs))

\* The characters C19 speaks of: an item with id (a, b) and a string of n
\* characters stands for the n one-character items (a, b) .. (a, b+n-1),
\* chained as C17 says, and an item whose value is a code stands for itself.
Characters(seq) ==
    Flatten([i \in DOMAIN seq |->
                IF IsCode(seq[i].value) THEN <<seq[i]>>
                ELSE [n \in DOMAIN seq[i].value |->
                         Chained(seq[i], n, Len(seq[i].value), 0,
                                 <<seq[i].value[n]>>)]])

\* the characters of the text by id, and their ids in CRDT order
DocChars == item_dict(Characters(arg[1].items))
DocOrder == CrdtSequence_iter(Characters(arg[1].items)).ids

\* the place of id k in the order
PlaceOf(ids, k) == CHOOSE q \in DOMAIN ids : ids[q] = k

\* the latest of the given codes before place q of the order, "" when none
LatestCode(chars, ids, q, codes) ==
    LET before == {n \in 1..(q - 1) : chars[ids[n]].value \in codes}
    IN  IF before = {} THEN <<"">>
        ELSE chars[ids[CHOOSE n \in before : \A m \in before : m <= n]].value

\* the properties in force at place q: bold after a code 1 until a code 2,
\* italic after a code 3 until a code 4, from the start of the text on
PropertiesAt(chars, ids, q) ==
    Properties(
        IF LatestCode(chars, ids, q, {<<"START_BOLD">>, <<"END_BOLD">>})
               = <<"START_BOLD">>
        THEN "bold" ELSE "normal",
        IF LatestCode(chars, ids, q, {<<"START_ITALIC">>, <<"END_ITALIC">>})
               = <<"START_ITALIC">>
        THEN "italic" ELSE "normal")

\* the number of newlines before place q of the order
NewlinesBefore(chars, ids, q) ==
    Cardinality({n \in 1..(q - 1) : chars[ids[n]].value = <<"\n">>})

\* the ids of the characters that are no newlines, in order
LetterIds(chars, ids) ==
    SelectSeq(ids, LAMBDA k : /\ ~IsCode(chars[k].value)
                              /\ chars[k].value # <<"\n">>)
\* the ids of all runs of a document, in order
RunIds(contents) ==
    Flatten([p \in DOMAIN contents |->
                Flatten([r \in DOMAIN contents[p].contents |->
                            contents[p].contents[r].i])])

\* the runs of the document follow the format state along the order
RunsFollow(chars, ids, contents) ==
    /\ RunIds(contents) = LetterIds(chars, ids)
    /\ Len(contents) = NewlinesBefore(chars, ids, Len(ids) + 1) + 1
    /\ \A p \in DOMAIN contents :
           LET runs == contents[p].contents
           IN  /\ \A r \in DOMAIN runs :
                      /\ Len(runs[r].i) >= 1
                      /\ Len(runs[r].s) = Len(runs[r].i)
                      /\ \A n \in DOMAIN runs[r].i :
                             \E q \in {PlaceOf(ids, runs[r].i[n])} :
                                 /\ <<runs[r].s[n]>> = chars[runs[r].i[n]].value
                                 /\ runs[r].properties = PropertiesAt(chars, ids, q)
                                 /\ NewlinesBefore(chars, ids, q) = p - 1
               /\ \A r \in 1..(Len(runs) - 1) :
                      runs[r].properties # runs[r + 1].properties

\* C19: a document is made of every text, and in it every character is in
\* a run whose properties are those in force at its place in the CRDT order
\* (weight set by the latest code 1 or 2 before it, style by the latest
\* code 3 or 4, newlines changing nothing); the runs
\* of paragraph p hold, in order and with their ids, the characters that
\* have p - 1 newlines before them, none is empty, and two runs that follow
\* each other differ in their properties; the documents of the two tests are
\* the ones the tests expect.
C19_RunsFollowFormatState ==
    DocCalled =>
        /\ ret[1].err = ""
        /\ \E chars \in {DocChars}, ids \in {DocOrder} :
               RunsFollow(chars, ids, ret[1].contents)
        /\ arg[1].items = ItalicOverParagraphs /\ arg[1].styles = <<>>
               => ret[1].contents = ItalicOverParagraphsContents
        /\ arg[1].items = BoldItalicInterleaved /\ arg[1].styles = <<>>
               => ret[1].contents = BoldItalicInterleavedContents

\* the items of test_inline_formatting_italic_over_paragraphs were given to
\* from_scene_item, and their expansion raised AttributeError
C19_Witness ==
    /\ DocCalled
    /\ arg[1].items = ItalicOverParagraphs
    /\ arg[1].styles = <<>>
    /\ ret[1] = [err |-> "AttributeError", contents |-> <<>>]

(***************************************************************************)
(* The scene tree.  A SceneTree holds its Groups in the node map _node_ids *)
(* (a dict, kept here as the sequence of its values in insertion order).   *)
(* A Group is an object: the value of a group item in a children sequence  *)
(* is the Group object of the node map, kept here as a reference to it by  *)
(* node_id.  build_tree(tree, blocks) takes the blocks one at a time.      *)
(***************************************************************************)
ROOT_ID == CrdtId(0, 1)

\* a Group held as the value of a CrdtSequenceItem in a children sequence:
\* the Group of the node map under node_id.  The other values held there
\* are Lines and GlyphRanges.
GroupOf(node_id) == [kind |-> "Group", node_id |-> node_id]

\* SceneTree.__init__
SceneTree_init == [root |-> ROOT_ID, _node_ids |-> <<Group(ROOT_ID)>>]

\* SceneTree.__contains__
SceneTree_contains(t, node_id) ==
    \E i \in DOMAIN t._node_ids : t._node_ids[i].node_id = node_id

\* the place of node_id in the node map
NodeIndex(t, node_id) ==
    CHOOSE i \in DOMAIN t._node_ids : t._node_ids[i].node_id = node_id

\* SceneTree.__getitem__
SceneTree_getitem(t, node_id) == t._node_ids[NodeIndex(t, node_id)]

\* SceneTree.add_node that replaces the Group of a node_id it already has
add_node_replacing(t, node_id, parent_id) ==
    IF SceneTree_contains(t, node_id)
    THEN [err |-> "",
          tree |-> [t EXCEPT !._node_ids[NodeIndex(t, node_id)] = Group(node_id)]]
    ELSE [err |-> "",
          tree |-> [t EXCEPT !._node_ids = Append(@, Group(node_id))]]

\* SceneTree.add_node
add_node(t, node_id, parent_id) ==
    IF SceneTree_contains(t, node_id)
    THEN [err |-> "ValueError", tree |-> t]
    ELSE [err |-> "",
          tree |-> [t EXCEPT !._node_ids = Append(@, Group(node_id))]]

\* SceneTree.add_item that looks the parent up without checking it
add_item_unchecked(t, item, parent_id) ==
    IF ~SceneTree_contains(t, parent_id)
    THEN [err |-> "KeyError", tree |-> t]
    ELSE Bind(CrdtSequence_add(SceneTree_getitem(t, parent_id).children, item),
              LAMBDA added :
                  [err |-> added.err,
                   tree |-> [t EXCEPT !._node_ids[NodeIndex(t, parent_id)].children =
                                          added.items]])

\* SceneTree.add_item
add_item(t, item, parent_id) ==
    IF ~SceneTree_contains(t, parent_id)
    THEN [err |-> "ValueError", tree |-> t]
    ELSE Bind(CrdtSequence_add(SceneTree_getitem(t, parent_id).children, item),
              LAMBDA added :
                  [err |-> added.err,
                   tree |-> [t EXCEPT !._node_ids[NodeIndex(t, parent_id)].children =
                                          added.items]])

\* TreeNodeBlock(group)
TreeNodeBlock(group) == Block("TreeNodeBlock", [group |-> group])

\* the body of the loop of build_tree for the block b: the tree afterwards
\* and the exception raised, if any
build_tree_block(t, b) ==
    CASE b.kind = "SceneTreeBlock" ->
             add_node(t, b.f.tree_id, b.f.parent_id)
      [] b.kind = "TreeNodeBlock" ->
             IF ~SceneTree_contains(t, b.f.group.node_id)
             THEN [err |-> "ValueError", tree |-> t]
             ELSE [err |-> "",
                   tree |-> [t EXCEPT !._node_ids[NodeIndex(t, b.f.group.node_id)] =
                        [@ EXCEPT !.label = b.f.group.label,
                                  !.visible = b.f.group.visible,
                                  !.anchor_id = b.f.group.anchor_id,
                                  !.anchor_type = b.f.group.anchor_type,
                                  !.anchor_threshold = b.f.group.anchor_threshold,
                                  !.anchor_origin_x = b.f.group.anchor_origin_x]]]
      [] b.kind = "SceneGroupItemBlock" ->
             IF b.f.item.value = None
             THEN [err |-> "", tree |-> t]
             ELSE IF ~SceneTree_contains(t, b.f.item.value[1])
             THEN [err |-> "ValueError", tree |-> t]
             ELSE add_item(t, [b.f.item EXCEPT !.value = Some(GroupOf(b.f.item.value[1]))],
                           b.f.parent_id)
      [] b.kind \in {"SceneLineItemBlock", "SceneGlyphItemBlock"} ->
             add_item(t, b.f.item, b.f.parent_id)
      [] b.kind = "RootTextBlock" ->
             \* tree.root_text: a SceneTree has no such attribute
             [err |-> "AttributeError", tree |-> t]
      [] OTHER -> [err |-> "", tree |-> t]

MaxTreeBlocks == 4

\* the blocks a caller hands to build_tree
TreeBlockPool ==
    <<Block("SceneTreeBlock",
            [tree_id |-> CrdtId(0, 11), node_id |-> CrdtId(0, 0),
             is_update |-> TRUE, parent_id |-> CrdtId(0, 1)]),
      Block("SceneTreeBlock",
            [tree_id |-> CrdtId(0, 12), node_id |-> CrdtId(0, 0),
             is_update |-> TRUE, parent_id |-> CrdtId(0, 11)]),
      TreeNodeBlock(Group(CrdtId(0, 1))),
      TreeNodeBlock([Group(CrdtId(0, 11)) EXCEPT
                        !.label = LwwValue(CrdtId(0, 12),
                                          <<76, 97, 121, 101, 114, 32, 49>>)]),
      SceneItemBlock_item("SceneGroupItemBlock", CrdtId(0, 1), CrdtId(0, 13),
                          CrdtId(0, 0), CrdtId(0, 0), 0, Some(CrdtId(0, 11)), <<>>),
      SceneItemBlock_item("SceneGroupItemBlock", CrdtId(0, 11), CrdtId(0, 14),
                          CrdtId(0, 0), CrdtId(0, 0), 0, Some(CrdtId(0, 12)), <<>>),
      SceneItemBlock_item("SceneGroupItemBlock", CrdtId(0, 11), CrdtId(0, 15),
                          CrdtId(0, 0), CrdtId(0, 0), 0, None, <<>>),
      SceneItemBlock_item("SceneLineItemBlock", CrdtId(0, 11), CrdtId(0, 16),
                          CrdtId(0, 0), CrdtId(0, 0), 0,
                          Some(Line(0, 17, <<>>, IntFloat(2), FloatZero)), <<>>),
      SceneItemBlock_item("SceneGlyphItemBlock", CrdtId(0, 12), CrdtId(0, 17),
                          CrdtId(0, 0), CrdtId(0, 0), 0,
                          Some(GlyphRange(Some(0), 1, <<97>>, 0,
                                          <<Rectangle(IntFloat(1), IntFloat(2),
                                                      IntFloat(3), IntFloat(4))>>)),
                          <<>>),
      Block("AuthorIdsBlock", [author_uuids |-> <<>>]),
      Block("RootTextBlock",
            [block_id |-> CrdtId(0, 0),
             value |-> Text(<<>>, <<>>, FloatZero, FloatZero, FloatZero)]),
      Block("SceneTreeBlock",
            [tree_id |-> CrdtId(0, 1), node_id |-> CrdtId(0, 0),
             is_update |-> TRUE, parent_id |-> CrdtId(0, 0)]),
      SceneItemBlock_item("SceneGroupItemBlock", CrdtId(0, 12), CrdtId(0, 18),
                          CrdtId(0, 0), CrdtId(0, 0), 0, Some(CrdtId(0, 11)), <<>>)>>

TreeBlockLists ==
    UNION {[1..n -> {TreeBlockPool[i] : i \in DOMAIN TreeBlockPool}] :
               n \in 0..MaxTreeBlocks}

\* tree = SceneTree(); build_tree(tree, blocks)
InitTree ==
    /\ NoCodec
    /\ NoEdit
    /\ items = <<>>
    /\ order = NotIterated
    /\ pc = "tree"
    /\ arg \in {<<list>> : list \in TreeBlockLists}
    /\ ret = <<>>
    /\ tree = <<SceneTree_init>>
    /\ given = <<>>
    /\ writer = NoWriter

\* one turn of the loop of build_tree
build_tree_next ==
    /\ pc = "tree"
    /\ ret = <<>>
    /\ Len(given) < Len(arg[1])
    /\ \E b \in {arg[1][Len(given) + 1]} :
       \E r \in {build_tree_block(tree[1], b)} :
           /\ given' = Append(given, b)
           /\ tree' = <<r.tree>>
           /\ ret' = IF r.err # "" THEN <<[err |-> r.err]>> ELSE <<>>
    /\ UNCHANGED <<data, pos, current_block, apiVars, streamVars, crdtVars,
                   editVars, writerVars, arg>>

\* the iterable is exhausted: build_tree returns
build_tree_return ==
    /\ pc = "tree"
    /\ ret = <<>>
    /\ Len(given) = Len(arg[1])
    /\ ret' = <<[err |-> ""]>>
    /\ UNCHANGED <<data, pos, current_block, apiVars, streamVars, crdtVars,
                   editVars, treeVars, writerVars, arg>>

NextTree == build_tree_next \/ build_tree_return

SpecTree == InitTree /\ [][NextTree]_vars

\* the node ids in the tree once build_tree has processed the blocks of
\* prefix: the root and the ids created by its SceneTree blocks
KnownNodes(prefix) ==
    {ROOT_ID} \cup {prefix[i].f.tree_id :
                       i \in {j \in DOMAIN prefix : prefix[j].kind = "SceneTreeBlock"}}

IsItemBlock(b) ==
    b.kind \in {"SceneGroupItemBlock", "SceneLineItemBlock", "SceneGlyphItemBlock"}

\* the block refers to a node that is not in known: as the claim states it
Unresolved(known, b) ==
    \/ b.kind = "TreeNodeBlock" /\ b.f.group.node_id \notin known
    \/ b.kind = "SceneGroupItemBlock" /\ b.f.item.value # None
                                      /\ b.f.item.value[1] \notin known
    \/ IsItemBlock(b) /\ b.f.parent_id \notin known

\* the same, a SceneGroupItem block without a value referring to nothing
UnresolvedValued(known, b) ==
    /\ Unresolved(known, b)
    /\ b.kind = "SceneGroupItemBlock" => b.f.item.value # None

\* build_tree has just processed a block, none before it having raised
Processed == pc = "tree" /\ given # <<>>

Failed(err) == ret # <<>> /\ ret[1].err = err

\* the SceneTree blocks of the list come before its other blocks
TreeBlocksFirst(list) ==
    \A i, j \in DOMAIN list :
        list[i].kind = "SceneTreeBlock" /\ list[j].kind # "SceneTreeBlock" => i < j

\* the list creates no node twice (the root is there from the start) and adds
\* no item twice to a parent
NoDuplicates(list) ==
    /\ \A i \in DOMAIN list :
           list[i].kind = "SceneTreeBlock" => list[i].f.tree_id # ROOT_ID
    /\ \A i, j \in DOMAIN list : i < j =>
        /\ list[i].kind = "SceneTreeBlock" /\ list[j].kind = "SceneTreeBlock"
               => list[i].f.tree_id # list[j].f.tree_id
        /\ IsItemBlock(list[i]) /\ IsItemBlock(list[j])
             /\ list[i].f.parent_id = list[j].f.parent_id
               => list[i].f.item.item_id # list[j].f.item.item_id

\* the list holds the blocks the claim is about: SceneTree, TreeNode and
\* group, line and glyph item blocks, each of which refers to the root or to
\* a node that a SceneTree block of the list creates
Resolvable(list) ==
    /\ \A i \in DOMAIN list :
           /\ list[i].kind \in {"SceneTreeBlock", "TreeNodeBlock"} \/ IsItemBlock(list[i])
           /\ ~Unresolved(KnownNodes(list), list[i])
    /\ NoDuplicates(list)

\* C20 as stated: a TreeNode block whose node, a SceneGroupItem block whose
\* referenced node, or a group, line or glyph item block whose parent is not
\* yet in the tree when build_tree processes it makes build_tree fail with
\* ValueError; the same blocks with the SceneTree blocks first are accepted.
C20_UnresolvedFails ==
    /\ Processed /\ Unresolved(KnownNodes(SubSeq(given, 1, Len(given) - 1)),
                               given[Len(given)])
           => Failed("ValueError")
    /\ pc = "tree" /\ ret # <<>> /\ TreeBlocksFirst(arg[1]) /\ Resolvable(arg[1])
           => Failed("")

\* C20 amended: a TreeNode block whose node, a SceneGroupItem block that has
\* a value and whose referenced node or parent, or a line or glyph item block
\* whose parent is not yet in the tree when build_tree processes it makes
\* build_tree fail with ValueError; a list of SceneTree, TreeNode and item
\* blocks in which the SceneTree blocks come first, every reference is
\* to the root or to a node the list creates, and nothing is created twice,
\* is accepted.
C20_UnresolvedValuedFails ==
    /\ Processed /\ UnresolvedValued(KnownNodes(SubSeq(given, 1, Len(given) - 1)),
                                     given[Len(given)])
           => Failed("ValueError")
    /\ pc = "tree" /\ ret # <<>> /\ TreeBlocksFirst(arg[1]) /\ Resolvable(arg[1])
           => Failed("")

\* build_tree failed on a group item block that refers to a node whose
\* SceneTree block comes later in the list
C20_Witness ==
    /\ pc = "tree"
    /\ Len(arg[1]) = 3
    /\ arg[1][1] = TreeBlockPool[4]
    /\ arg[1][2] = TreeBlockPool[5]
    /\ arg[1][3] = TreeBlockPool[1]
    /\ Len(given) = 1
    /\ Failed("ValueError")

\* the same blocks with the SceneTree block first are accepted
C20_WitnessAccepted ==
    /\ pc = "tree"
    /\ arg[1] = <<TreeBlockPool[1], TreeBlockPool[4], TreeBlockPool[5]>>
    /\ given = arg[1]
    /\ Failed("")
    /\ tree[1]._node_ids[1].children[1].value = Some(GroupOf(CrdtId(0, 11)))
    /\ tree[1]._node_ids[2].label.value = <<76, 97, 121, 101, 114, 32, 49>>

\* build_tree is about to hand the SceneTree block b to add_node
AddNodeCalled(b) ==
    /\ pc = "tree"
    /\ ret = <<>>
    /\ Len(given) < Len(arg[1])
    /\ b = arg[1][Len(given) + 1]
    /\ b.kind = "SceneTreeBlock"
    /\ given' = Append(given, b)

\* the Groups that have the Group of node_id among their children
ParentsOf(t, node_id) ==
    {i \in DOMAIN t._node_ids :
        \E k \in DOMAIN t._node_ids[i].children :
            t._node_ids[i].children[k].value = Some(GroupOf(node_id))}

\* add_node on a node_id the tree has fails with ValueError and leaves the
\* tree as it was
DuplicateRefused(t, b) ==
    SceneTree_contains(t, b.f.tree_id) =>
        /\ ret' = <<[err |-> "ValueError"]>>
        /\ tree' = <<t>>

\* add_node on a new node_id returns, the node map then holding a fresh
\* Group under node_id and every Group it held, unchanged
FreshInserted(t, b) ==
    ~SceneTree_contains(t, b.f.tree_id) =>
        /\ ret' = <<>>
        /\ SceneTree_contains(tree'[1], b.f.tree_id)
        /\ SceneTree_getitem(tree'[1], b.f.tree_id) = Group(b.f.tree_id)
        /\ Len(tree'[1]._node_ids) = Len(t._node_ids) + 1
        /\ \A i \in DOMAIN t._node_ids : tree'[1]._node_ids[i] = t._node_ids[i]

\* C21 as stated: add_node(node_id, parent_id) inserts a fresh Group for
\* node_id under the existing parent parent_id (the parent is in the tree and
\* has the new Group among its children afterwards); a node_id already in the
\* tree, the root id included, fails with ValueError and leaves the tree
\* unchanged.
C21_AddNodeUnderParent ==
    [][\A b \in {arg[1][i] : i \in DOMAIN arg[1]} :
          AddNodeCalled(b) =>
              /\ DuplicateRefused(tree[1], b)
              /\ FreshInserted(tree[1], b)
              /\ ~SceneTree_contains(tree[1], b.f.tree_id) =>
                     /\ SceneTree_contains(tree[1], b.f.parent_id)
                     /\ NodeIndex(tree'[1], b.f.parent_id)
                            \in ParentsOf(tree'[1], b.f.tree_id)]_vars

\* C21 amended: add_node(node_id, parent_id) inserts a fresh Group for node_id
\* into the node map, whatever parent_id is and without making it a child of
\* any Group; a node_id already in the tree, the root id included, fails with
\* ValueError and leaves the tree unchanged.
C21_AddNodeIntoMap ==
    [][\A b \in {arg[1][i] : i \in DOMAIN arg[1]} :
          AddNodeCalled(b) =>
              /\ DuplicateRefused(tree[1], b)
              /\ FreshInserted(tree[1], b)
              /\ ParentsOf(tree'[1], b.f.tree_id) = ParentsOf(tree[1], b.f.tree_id)]_vars

\* add_node has inserted node (0,11), whose parent the root is, the root
\* having no children, and has then refused the same node_id
C21_Witness ==
    /\ pc = "tree"
    /\ given = <<TreeBlockPool[1], TreeBlockPool[1]>>
    /\ Failed("ValueError")
    /\ Len(tree[1]._node_ids) = 2
    /\ tree[1]._node_ids[2] = Group(CrdtId(0, 11))
    /\ tree[1]._node_ids[1].children = <<>>

\* add_node has inserted node (0,12) although its parent (0,11) is not in
\* the tree
C21_WitnessUnknownParent ==
    /\ pc = "tree"
    /\ given = <<TreeBlockPool[2]>>
    /\ ret = <<>>
    /\ ~SceneTree_contains(tree[1], CrdtId(0, 11))
    /\ SceneTree_contains(tree[1], CrdtId(0, 12))

\* the node ids of the Groups among the children of the Group of node_id
ChildGroups(t, node_id) ==
    {t._node_ids[i].children[k].value[1].node_id :
        <<i, k>> \in {<<i, k>> \in (DOMAIN t._node_ids) \X (1..MaxTreeBlocks) :
                         /\ t._node_ids[i].node_id = node_id
                         /\ k \in DOMAIN t._node_ids[i].children
                         /\ t._node_ids[i].children[k].value # None
                         /\ hasattr(t._node_ids[i].children[k].value[1], "node_id")}}

\* the node ids reached from the node ids of from through children, in at
\* most n steps and at least one
RECURSIVE Descendants(_, _, _)
Descendants(t, from, n) ==
    IF n = 0 THEN {}
    ELSE LET below == UNION {ChildGroups(t, id) : id \in from}
         IN  below \cup Descendants(t, below, n - 1)

\* the number of places in children sequences that hold the Group of node_id
Occurrences(t, node_id) ==
    Cardinality({<<i, k>> \in (DOMAIN t._node_ids) \X (1..MaxTreeBlocks) :
                    /\ k \in DOMAIN t._node_ids[i].children
                    /\ t._node_ids[i].children[k].value = Some(GroupOf(node_id))})

NodeIds(t) == {t._node_ids[i].node_id : i \in DOMAIN t._node_ids}

\* every Group held in a children sequence is a Group of the node map
ChildrenInMap(t) ==
    \A id \in NodeIds(t) : ChildGroups(t, id) \subseteq NodeIds(t)

\* build_tree has returned
Built == pc = "tree" /\ Failed("")

\* C28: after build_tree has processed the blocks without raising, every
\* Group other than the root is a child of at most one parent, no Group is
\* reachable from itself through children, and every Group held in a
\* children sequence is the Group the node map holds under its node_id.
C28_GroupsFormTree ==
    Built => \E t \in {tree[1]} :
        /\ t.root = ROOT_ID
        /\ \A id \in NodeIds(t) \ {ROOT_ID} : Occurrences(t, id) <= 1
        /\ \A id \in NodeIds(t) : id \notin Descendants(t, {id}, Len(t._node_ids))
        /\ ChildrenInMap(t)

\* what holds of C28: the Groups in children sequences are those of the map
C28_ChildrenAreMapGroups == Built => ChildrenInMap(tree[1])

\* build_tree has returned from SceneTree blocks for (0,11) and (0,12) and
\* the group items 14 (parent (0,11), group (0,12)) and 18 (parent (0,12),
\* group (0,11)): each of the two Groups is reachable from itself, and
\* neither from the root
C28_Witness ==
    /\ Built
    /\ given = <<TreeBlockPool[1], TreeBlockPool[2], TreeBlockPool[6], TreeBlockPool[13]>>
    /\ CrdtId(0, 11) \in Descendants(tree[1], {CrdtId(0, 11)}, 3)
    /\ Descendants(tree[1], {ROOT_ID}, 3) = {}

\* build_tree has returned with the Group (0,11) held by two parents, the
\* root and (0,12)
C28_WitnessTwoParents ==
    /\ Built
    /\ Occurrences(tree[1], CrdtId(0, 11)) = 2
    /\ ChildGroups(tree[1], ROOT_ID) = {CrdtId(0, 11)}
    /\ ChildGroups(tree[1], CrdtId(0, 12)) = {CrdtId(0, 11)}

(***************************************************************************)
(* A caller writes one SceneLineItemBlock with write_blocks under some     *)
(* options, and reads with read_blocks a stream that holds the block as    *)
(* the options describe it.                                                *)
(***************************************************************************)
MaxPoints == 2

\* 1.0, 2.0 and -3.25
Float_1 == IntFloat(1)
Float_2 == IntFloat(2)
Float_m3_25 == Float("finite", 1, 1, <<1, 0, 1>>)

PointChoices ==
    {Point(Float_1, Float_2, 12345, 100, 345, 200),
     Point(Float_m3_25, FloatZero, 0, 0, 0, 0),
     Point(Float_5_4_f32, Float_1, 4, 0, 65535, 255)}

\* Line(PenColor.BLACK, Pen.FINELINER_2, points, 2.0, 0.0)
LineChoices ==
    {Line(0, 17, points, Float_2, FloatZero) :
        points \in UNION {[1..n -> PointChoices] : n \in 0..MaxPoints}}

\* None, {} and {"version": v} for releases on both sides of 3.0
LineOptions ==
    {NoOptions,
     [given |-> TRUE, has_version |-> FALSE, version |-> <<>>, parsed |-> FALSE],
     VersionOption(<<2, 9>>), VersionOption(<<3>>), VersionOption(<<3, 0>>),
     VersionOption(<<3, 0, 0>>), VersionOption(<<3, 0, 1>>),
     VersionOption(<<3, 1>>), VersionOption(<<9999>>)}

InitLineItem ==
    /\ tree = <<>>
    /\ given = <<>>
    /\ writer = NoWriter
    /\ NoEdit
    /\ items = <<>>
    /\ order = NotIterated
    /\ data = <<>>
    /\ pos = 0
    /\ current_block = None
    /\ scopes = <<>>
    /\ last = NoCall
    /\ blocks = <<>>
    /\ out = <<>>
    /\ producer = <<>>
    /\ lastRead = NoRead
    /\ lastWrite = NoWrite
    /\ pc = "line"
    /\ options \in LineOptions
    /\ arg \in {<<SceneItemBlock_item("SceneLineItemBlock", CrdtId(0, 11),
                                      CrdtId(1, 20), CrdtId(0, 0), CrdtId(0, 0),
                                      0, Some(line), <<>>)>> :
                   line \in LineChoices}
    /\ ret = <<>>

\* write_blocks(out, [block], options): the header, then block.write
write_line_block ==
    /\ pc = "line"
    /\ options' = IF options.given /\ options.has_version
                  THEN [options EXCEPT !.parsed = TRUE]
                  ELSE options
    /\ \E bytes \in {Block_write(arg[1], options')} :
           /\ out' = HEADER_V6 \o written(bytes)
           /\ lastWrite' = [at |-> Len(HEADER_V6), bytes |-> written(bytes),
                            err |-> write_err(bytes), block |-> Some(arg[1])]
    /\ pc' = "line_written"
    /\ UNCHANGED <<data, pos, current_block, blocks, producer, lastRead,
                   apiVars, crdtVars, editVars, treeVars, writerVars, callVars>>

\* The block of the line as the options describe it, which is what
\* block.write has in its buffers when line_to_stream reaches line.move_id:
\* the header with the versions of version_info around the fields of
\* to_stream, the line in sub-block 6 with its points in the layout that
\* value_to_stream asks for.
LineFrame(block, opts) ==
    LET v == version_info(block, opts)
        f == block.f
    IN  write_block(get_block_type(block), v[1], v[2],
            write_id(1, f.parent_id) \o write_id(2, f.item.item_id)
            \o write_id(3, f.item.left_id) \o write_id(4, f.item.right_id)
            \o write_int(5, f.item.deleted_length)
            \o write_subblock(6,
                   write_uint8(ITEM_TYPE(block.kind))
                   \o written(line_value_to_stream(f.item.value[1], opts))))

\* list(read_blocks(data)) for the stream with that block: the header, the
\* block, the end of the input
read_line_block ==
    /\ pc = "line_written"
    /\ data' = HEADER_V6 \o LineFrame(arg[1], options)
    /\ \E r \in {Block_read(data', Len(HEADER_V6), None)} :
       \E end \in {Block_read(data', r.pos, r.cb)} :
           /\ pos' = end.pos
           /\ current_block' = end.cb
           /\ blocks' = r.block \o end.block
           /\ lastRead' = [outcome |-> r.outcome, err |-> r.err,
                           hdr |-> Len(HEADER_V6), info |-> r.info,
                           fs_called |-> r.info # None
                                         /\ lookup(r.info[1].block_type) # "",
                           fs_err |-> r.fs.err, fs_pos |-> r.fs.pos]
           /\ ret' = <<[err |-> IF r.err # "" THEN r.err ELSE end.err,
                        outcome |-> end.outcome]>>
    /\ pc' = "line_read"
    /\ UNCHANGED <<out, options, producer, lastWrite, apiVars, crdtVars,
                   editVars, treeVars, writerVars, arg>>

NextLineItem == write_line_block \/ read_line_block

SpecLineItem == InitLineItem /\ [][NextLineItem]_vars

\* the line version the options ask for: 2 above release 3.0, else 1
AskedLineVersion ==
    IF VersionGT(options_get_version(options, <<9999>>), <<3, 0>>) THEN 2 ELSE 1

\* the min_version and current_version bytes of the block header in bytes
HeaderVersions(bytes) == <<bytes[6], bytes[7]>>

\* the bytes that the points of the line take in bytes: those of the block
\* less those of the same block with a line without points
PointBytes(bytes) ==
    Len(bytes)
    - Len(LineFrame([arg[1] EXCEPT !.f.item.value[1].points = <<>>], options))

\* the block of the stream that was read
FrameRead == SubSeq(data, Len(HEADER_V6) + 1, Len(data))

\* write_blocks was called
LineWritten == pc \in {"line_written", "line_read"}

\* C22: whatever the options, the SceneLineItem block is written with header
\* versions (2, 2) and 14 bytes a point above release 3.0, with (1, 1) and 24
\* bytes a point otherwise.
C22_PointLayoutMatchesHeader ==
    LineWritten =>
        \E v \in {AskedLineVersion} :
            /\ lastWrite.err = ""
            /\ out = HEADER_V6 \o lastWrite.bytes
            /\ Len(lastWrite.bytes) >= 8
            /\ HeaderVersions(lastWrite.bytes) = <<v, v>>
            /\ PointBytes(lastWrite.bytes)
                   = Len(arg[1].f.item.value[1].points)
                     * (IF v = 2 THEN 14 ELSE 24)

\* what holds of C22: the versions of version_info and the point layout of
\* value_to_stream follow the same test of the options, so a block made of
\* what the two give has the layout its header names; and the reader
\* decodes the points by the header's current_version and comes to the end
\* of the line's fields, where si.Line with six arguments raises TypeError
C22_LayoutOfFrame ==
    pc = "line_read" =>
        \E v \in {AskedLineVersion}, frame \in {FrameRead} :
            /\ HeaderVersions(frame) = <<v, v>>
            /\ PointBytes(frame) = Len(arg[1].f.item.value[1].points)
                                   * (IF v = 2 THEN 14 ELSE 24)
            /\ lastRead.info[1].current_version = v
            /\ lastRead.fs_err = "TypeError"
            /\ lastRead.fs_pos = Len(data)
            /\ Len(blocks) = 1
            /\ blocks[1].kind = "UnreadableBlock"
            /\ blocks[1].f.data = SubSeq(frame, 9, Len(frame))

\* write_blocks of a line of two points under {"version": "3.0.1"} raised
\* AttributeError and left the header alone in the output
C22_Witness ==
    /\ pc = "line_written"
    /\ options = [VersionOption(<<3, 0, 1>>) EXCEPT !.parsed = TRUE]
    /\ Len(arg[1].f.item.value[1].points) = 2
    /\ lastWrite.err = "AttributeError"
    /\ lastWrite.bytes = <<>>
    /\ out = HEADER_V6

\* the block of a line of two points as {"version": "3.0.0"} describes it,
\* versions (1, 1) and 48 bytes of points, was read as an UnreadableBlock
C22_WitnessVersion1 ==
    /\ pc = "line_read"
    /\ options = [VersionOption(<<3, 0, 0>>) EXCEPT !.parsed = TRUE]
    /\ Len(arg[1].f.item.value[1].points) = 2
    /\ HeaderVersions(FrameRead) = <<1, 1>>
    /\ PointBytes(FrameRead) = 48
    /\ blocks[1].kind = "UnreadableBlock"

(***************************************************************************)
(* scene_stream.py: write_blocks called again and again with the same      *)
(* options mapping.  Each call writes to a BytesIO of its own; ret holds   *)
(* one record per call: the mapping before and after it, the exception     *)
(* that ended it, and the bytes it wrote.                                  *)
(***************************************************************************)

\* options["version"] = Version(options["version"]), when options is a
\* mapping with a version: Version() of a str parses it, Version() of a
\* Version raises TypeError.
write_blocks_options(opts) ==
    IF opts.given /\ opts.has_version
    THEN IF opts.parsed
         THEN [err |-> "TypeError", options |-> opts]
         ELSE [err |-> "", options |-> [opts EXCEPT !.parsed = TRUE]]
    ELSE [err |-> "", options |-> opts]

\* for block in blocks: block.write(stream)
RECURSIVE write_blocks_loop(_, _)
write_blocks_loop(list, opts) ==
    IF list = <<>> THEN <<>>
    ELSE LET bytes == Block_write(Head(list), opts)
         IN  IF write_err(bytes) # "" THEN bytes
             ELSE bytes \o write_blocks_loop(Tail(list), opts)

\* how many times the caller calls write_blocks
MaxCalls == 2

\* None, {} and {"version": v} for releases on both sides of 3.2.2
RepeatedOptions ==
    {NoOptions,
     [given |-> TRUE, has_version |-> FALSE, version |-> <<>>, parsed |-> FALSE],
     VersionOption(<<3, 0>>), VersionOption(<<3, 2, 1>>),
     VersionOption(<<3, 2, 2>>), VersionOption(<<3, 3>>)}

RepeatedBlocks ==
    {Block("MigrationInfoBlock",
           [migration_id |-> CrdtId(1, 1), is_device |-> TRUE,
            unknown |-> FALSE]),
     Block("PageInfoBlock",
           [loads_count |-> 1, merges_count |-> 0, text_chars_count |-> 3,
            text_lines_count |-> 1, type_folio_use_count |-> 0]),
     Block("SceneTreeBlock",
           [tree_id |-> CrdtId(0, 11), node_id |-> CrdtId(0, 0),
            is_update |-> TRUE, parent_id |-> CrdtId(0, 1)])}

InitRepeated ==
    /\ tree = <<>>
    /\ given = <<>>
    /\ writer = NoWriter
    /\ NoEdit
    /\ items = <<>>
    /\ order = NotIterated
    /\ data = <<>>
    /\ pos = 0
    /\ current_block = None
    /\ scopes = <<>>
    /\ last = NoCall
    /\ blocks = <<>>
    /\ out = <<>>
    /\ producer = <<>>
    /\ lastRead = NoRead
    /\ lastWrite = NoWrite
    /\ pc = "repeated"
    /\ options \in RepeatedOptions
    /\ arg \in {<<list>> :
                   list \in UNION {[1..n -> RepeatedBlocks] : n \in 0..MaxBlocks}}
    /\ ret = <<>>

\* write_blocks(BytesIO(), blocks, options)
write_blocks ==
    /\ pc = "repeated"
    /\ Len(ret) < MaxCalls
    /\ \E o \in {write_blocks_options(options)} :
       \E bytes \in {IF o.err # "" THEN <<>>
                     ELSE HEADER_V6 \o write_blocks_loop(arg[1], o.options)} :
           /\ options' = o.options
           /\ out' = written(bytes)
           /\ ret' = Append(ret, [before |-> options, after |-> o.options,
                                  err |-> IF o.err # "" THEN o.err
                                          ELSE write_err(bytes),
                                  bytes |-> written(bytes)])
    /\ UNCHANGED <<data, pos, current_block, blocks, producer, pc, lastRead,
                   lastWrite, apiVars, crdtVars, editVars, treeVars, writerVars,
                   arg>>

NextRepeated == write_blocks

SpecRepeated == InitRepeated /\ [][NextRepeated]_vars

\* C30: every write_blocks call leaves the caller's options mapping as it
\* was, and every call with the same mapping and the same blocks returns
\* normally with the bytes the first call wrote.
C30_OptionsUnchanged ==
    pc = "repeated" =>
        \A i \in DOMAIN ret :
            /\ ret[i].after = ret[i].before
            /\ ret[i].err = ""
            /\ ret[i].bytes = ret[1].bytes

\* write_blocks was called twice with {"version": "3.2.1"} and a
\* MigrationInfoBlock: the first call wrote the block and left a Version in
\* the mapping, the second raised TypeError and wrote nothing
C30_Witness ==
    /\ pc = "repeated"
    /\ Len(ret) = 2
    /\ Len(arg[1]) = 1
    /\ arg[1][1].kind = "MigrationInfoBlock"
    /\ ret[1].before = VersionOption(<<3, 2, 1>>)
    /\ ret[1].err = ""
    /\ ret[1].after.parsed
    /\ Len(ret[1].bytes) > Len(HEADER_V6)
    /\ ret[2].before = ret[1].after
    /\ ret[2].err = "TypeError"
    /\ ret[2].bytes = <<>>

\* without a version in the mapping the second call wrote what the first
\* wrote
C30_WitnessNoVersion ==
    /\ pc = "repeated"
    /\ Len(ret) = 2
    /\ arg[1] # <<>>
    /\ ~options.has_version
    /\ options.given
    /\ ret[2].err = ""
    /\ ret[2].bytes = ret[1].bytes
    /\ ret[2].after = ret[1].before

====
